---------------------------- MODULE Spec2Model ----------------------------
(***************************************************************************)
(* Attendance-report viewer (server/routes/attendance.ts).                 *)
(*                                                                         *)
(* Text is modelled as a sequence of one-character strings, so that        *)
(* trimming, case mapping, substring search and the regular expressions of *)
(* the source are computed character by character.  A raw cell value is a  *)
(* tagged record: an absent cell (undefined), a text cell or a number cell.*)
(* A number is a decimal [m, e] standing for m / 10^e, kept normalised     *)
(* (no trailing zero in the fraction).                                     *)
(***************************************************************************)
EXTENDS Integers, Sequences, FiniteSets, TLC

VARIABLES
    raw,        \* classifier: the raw cell value handed to classifyCell
    cls,        \* classifier: the value classifyCell returned, or NoResult
    wb,         \* locator: the workbook handed to findPresentSheet
    located,    \* locator: what findPresentSheet returned, or NoResult
    sheet,      \* directory/resolver: the located worksheet (rows of the used range)
    query,      \* resolver: the number/name query of the last /summary scan
    employees,  \* directory: what readEmployeesFromSheet returned, or NoResult
    found,      \* resolver: [foundRow, foundEmp] of the last scan, or NoResult
    grid,       \* summarizer: the worksheet handed to summarizeRow (row 1 is summarized)
    summary,    \* summarizer: what summarizeRow returned, or NoResult
    store,      \* server: what storage holds under the file id StoredFile
    req,        \* server: the last GET request of the attendance API
    resp,       \* server: the responses sent for it, or NoResult
    inflight,   \* server: the attendance requests being handled at the same time
    stored,     \* relay: what the configuration file holds, or Null
    adminToken, \* relay: process.env.ADMIN_TOKEN, "" when it is not set
    call,       \* relay: the last request to the WhatsApp API
    reply,      \* relay: the response to it, or NoResult
    outbox,     \* relay: the provider calls made for it, in order
    images,     \* relay: how many image files were written for it
    lastPut,    \* relay: the configuration of the last accepted PUT /config, or Null
    clock,      \* media: Date.now()
    mediaTtl,   \* media: MEDIA_TTL_MS
    uploads,    \* media: the file names in the upload directory
    links,      \* media: the signed URLs issued so far
    fetched,    \* media: the last GET /uploads-temp and its answer, or NoResult
    localStore, \* settings page: localStorage[STORAGE_KEY], or Null
    page        \* settings page: the component's state and its pending fetch

concurrentVars == <<inflight>>
relayVars == <<stored, adminToken, call, reply, outbox, images, lastPut>>
mediaVars == <<clock, mediaTtl, uploads, links, fetched>>
pageVars == <<localStore, page>>

\* the variables of the parts that follow the attendance engine
otherVars == <<concurrentVars, relayVars, mediaVars, pageVars>>

vars == <<raw, cls, wb, located, sheet, query, employees, found,
          grid, summary, store, req, resp, otherVars>>

-----------------------------------------------------------------------------
(* Bounds of the model *)

\* longest text enumerated exhaustively over SmallAlphabet
MaxCellLen == 3
\* most sheet names in a workbook
MaxSheets == 3
\* most rows in the used range of a sheet
MaxRows == 2
\* most day cells of a row drawn one by one
MaxDays == 3

-----------------------------------------------------------------------------
(* Values *)

\* a result variable before and after its operation has run
NoResult == [done |-> FALSE]
Result(v) == [done |-> TRUE, v |-> v]
Undefined == [t |-> "undefined"]
Text(s) == [t |-> "text", s |-> s]
Num(m, e) == [t |-> "number", m |-> m, e |-> e]

RECURSIVE Pow10(_)
Pow10(k) == IF k = 0 THEN 1 ELSE 10 * Pow10(k - 1)

\* a decimal m / 10^e without trailing zeros in its fraction
RECURSIVE Dec(_, _)
Dec(m, e) == IF e > 0 /\ m % 10 = 0 THEN Dec(m \div 10, e - 1) ELSE [m |-> m, e |-> e]

Zero == Dec(0, 0)

-----------------------------------------------------------------------------
(* JavaScript string primitives used by the source *)

LowerChars == <<"a","b","c","d","e","f","g","h","i","j","k","l","m",
                "n","o","p","q","r","s","t","u","v","w","x","y","z">>
UpperChars == <<"A","B","C","D","E","F","G","H","I","J","K","L","M",
                "N","O","P","Q","R","S","T","U","V","W","X","Y","Z">>
DigitChars == <<"0","1","2","3","4","5","6","7","8","9">>

\* \s of a regular expression and the characters String.prototype.trim removes
IsSpace(c) == c \in {" ", "\t", "\n"}
IsDigit(c) == \E i \in 1..10 : DigitChars[i] = c
DigitVal(c) == (CHOOSE i \in 1..10 : DigitChars[i] = c) - 1

UpperChar(c) == IF \E i \in 1..26 : LowerChars[i] = c
                THEN UpperChars[CHOOSE i \in 1..26 : LowerChars[i] = c] ELSE c
LowerChar(c) == IF \E i \in 1..26 : UpperChars[i] = c
                THEN LowerChars[CHOOSE i \in 1..26 : UpperChars[i] = c] ELSE c

toUpperCase(s) == [i \in 1..Len(s) |-> UpperChar(s[i])]
toLowerCase(s) == [i \in 1..Len(s) |-> LowerChar(s[i])]

trim(s) ==
    LET keep == {i \in 1..Len(s) : ~IsSpace(s[i])}
    IN  IF keep = {} THEN <<>>
        ELSE SubSeq(s, CHOOSE i \in keep : \A j \in keep : i <= j,
                       CHOOSE i \in keep : \A j \in keep : j <= i)

includes(s, sub) ==
    \E i \in 0..(Len(s) - Len(sub)) : SubSeq(s, i + 1, i + Len(sub)) = sub

startsWith(s, pre) == Len(pre) <= Len(s) /\ SubSeq(s, 1, Len(pre)) = pre

\* s.replace(/[.]/g, "")
removePeriods(s) == SelectSeq(s, LAMBDA c : c # ".")

\* s.replace(/\s+/g, " "): every maximal run of white space becomes one blank
RECURSIVE collapseSpaces(_)
collapseSpaces(s) ==
    IF s = <<>> THEN <<>>
    ELSE IF IsSpace(Head(s))
         THEN IF Len(s) > 1 /\ IsSpace(s[2]) THEN collapseSpaces(Tail(s))
              ELSE <<" ">> \o collapseSpaces(Tail(s))
         ELSE <<Head(s)>> \o collapseSpaces(Tail(s))

\* the decimal digits of a natural number
RECURSIVE NatToStr(_)
NatToStr(n) == IF n < 10 THEN <<DigitChars[n + 1]>>
               ELSE NatToStr(n \div 10) \o <<DigitChars[(n % 10) + 1]>>

\* the e digits of a fraction f / 10^e, leading zeros kept
RECURSIVE FracToStr(_, _)
FracToStr(f, e) == IF e = 0 THEN <<>>
                   ELSE FracToStr(f \div 10, e - 1) \o <<DigitChars[(f % 10) + 1]>>

\* String(v ?? ""): an absent cell is "", a text is itself, a number prints
\* as its shortest decimal
String(v) ==
    IF v.t = "undefined" THEN <<>>
    ELSE IF v.t = "text" THEN v.s
    ELSE LET d == Dec(v.m, v.e)
             p == Pow10(d.e)
         IN  NatToStr(d.m \div p)
             \o (IF d.e = 0 THEN <<>> ELSE <<".">> \o FracToStr(d.m % p, d.e))

\* the value of a run of digits
RECURSIVE DigitsVal(_)
DigitsVal(ds) == IF ds = <<>> THEN 0
                 ELSE 10 * DigitsVal(SubSeq(ds, 1, Len(ds) - 1)) + DigitVal(ds[Len(ds)])

\* how many digits, how many white-space characters, s starts with
RECURSIVE DigitRun(_)
DigitRun(s) == IF s = <<>> \/ ~IsDigit(Head(s)) THEN 0 ELSE 1 + DigitRun(Tail(s))

RECURSIVE SpaceRun(_)
SpaceRun(s) == IF s = <<>> \/ ~IsSpace(Head(s)) THEN 0 ELSE 1 + SpaceRun(Tail(s))

Drop(s, n) == SubSeq(s, n + 1, Len(s))

\* parseFloat of a text of the form digits or digits.digits
parseFloat(t) ==
    LET n == DigitRun(t)
        f == IF n < Len(t) THEN Drop(t, n + 1) ELSE <<>>
    IN  Dec(DigitsVal(SubSeq(t, 1, n)) * Pow10(Len(f)) + DigitsVal(f), Len(f))

-----------------------------------------------------------------------------
(* attendance.ts: normalisation helpers *)

normalizeStr(v) == trim(String(v))

\* faulty variant: the pattern without its i flag, /^no\.?$/
IsHeaderToken_CaseSensitive(s) == s = <<"n","o">> \/ s = <<"n","o",".">>

\* /^no\.?$/i.test(s)
IsHeaderToken(s) ==
    LET u == toUpperCase(s)
    IN  u = <<"N","O">> \/ u = <<"N","O",".">>

isIgnored(v) ==
    LET s == trim(v)
    IN  \/ s = <<>>
        \/ IsHeaderToken(s)
        \/ s = <<".">>

toUpperNoSpaces(s) == toUpperCase(trim(collapseSpaces(s)))

\* faulty variant: the periods are kept
normalizeForCompare_KeepPeriods(s) == toUpperCase(trim(collapseSpaces(s)))

normalizeForCompare(s) == toUpperCase(trim(collapseSpaces(removePeriods(s))))

-----------------------------------------------------------------------------
(* attendance.ts: classifyCell *)

\* faulty variant: the pattern without its optional fraction, /OT\s*([0-9]+)?/
otMatch_IntegerOnly(s) ==
    LET at == {i \in 1..(Len(s) - 1) : s[i] = "O" /\ s[i + 1] = "T"}
    IN  IF at = {} THEN [matched |-> FALSE, g1 |-> <<>>]
        ELSE LET i == CHOOSE k \in at : \A j \in at : k <= j
                 afterOT == Drop(s, i + 1)
                 rest == Drop(afterOT, SpaceRun(afterOT))
             IN  [matched |-> TRUE, g1 |-> SubSeq(rest, 1, DigitRun(rest))]

\* s.match(/OT\s*([0-9]+(?:\.[0-9]+)?)?/): the leftmost "OT", the white space
\* after it, and the longest number after that.  g1 is the text of capture
\* group 1, <<>> when the group took no part in the match.
otMatch(s) ==
    LET at == {i \in 1..(Len(s) - 1) : s[i] = "O" /\ s[i + 1] = "T"}
    IN  IF at = {} THEN [matched |-> FALSE, g1 |-> <<>>]
        ELSE LET i == CHOOSE k \in at : \A j \in at : k <= j
                 afterOT == Drop(s, i + 1)
                 rest == Drop(afterOT, SpaceRun(afterOT))
                 n == DigitRun(rest)
                 tail == Drop(rest, n)
                 f == IF tail # <<>> /\ Head(tail) = "." THEN DigitRun(Tail(tail)) ELSE 0
             IN  [matched |-> TRUE,
                  g1 |-> IF n = 0 THEN <<>>
                         ELSE IF f = 0 THEN SubSeq(rest, 1, n)
                         ELSE SubSeq(rest, 1, n + 1 + f)]

\* lines 66-70: ot starts at 0 and takes the parsed number of the match
otOf(s) ==
    LET m == otMatch(s)
    IN  IF m.matched /\ m.g1 # <<>> THEN parseFloat(m.g1) ELSE Zero

\* faulty variant: any text that starts with "P" counts as present
IsPresentCode_AnyPrefix(s) == startsWith(s, <<"P">>)

\* line 72
IsPresentCode(s) ==
    \/ s = <<"P">>
    \/ startsWith(s, <<"P","/">>)
    \/ s = <<"P","R">>
    \/ s = <<"P","R","E","S","E","N","T">>

\* faulty variant: "A" tested as a prefix, as "P/" is
IsAbsentCode_Prefix(s) == startsWith(s, <<"A">>) \/ s = <<"A","B","S","E","N","T">>

\* line 73
IsAbsentCode(s) == s = <<"A">> \/ s = <<"A","B","S","E","N","T">>

\* line 74
IsWeekoffCode(s) ==
    \/ s = <<"W","O">>
    \/ s = <<"W","/","O">>
    \/ s = <<"W","E","E","K","O","F","F">>
    \/ s = <<"W","E","E","K"," ","O","F","F">>

\* faulty variant: the cell is not upper-cased before it is compared
classifyCell_CaseSensitive(v) ==
    LET s == normalizeStr(v)
    IN  IF s = <<>> THEN [present |-> 0, absent |-> 0, weekoff |-> 0, ot |-> Zero]
        ELSE [present |-> IF IsPresentCode(s) THEN 1 ELSE 0,
              absent  |-> IF ~IsPresentCode(s) /\ IsAbsentCode(s) THEN 1 ELSE 0,
              weekoff |-> IF ~IsPresentCode(s) /\ ~IsAbsentCode(s) /\ IsWeekoffCode(s)
                          THEN 1 ELSE 0,
              ot      |-> otOf(s)]

\* lines 58-77
classifyCell(v) ==
    LET s == toUpperCase(normalizeStr(v))
    IN  IF s = <<>> THEN [present |-> 0, absent |-> 0, weekoff |-> 0, ot |-> Zero]
        ELSE [present |-> IF IsPresentCode(s) THEN 1 ELSE 0,
              absent  |-> IF ~IsPresentCode(s) /\ IsAbsentCode(s) THEN 1 ELSE 0,
              weekoff |-> IF ~IsPresentCode(s) /\ ~IsAbsentCode(s) /\ IsWeekoffCode(s)
                          THEN 1 ELSE 0,
              ot      |-> otOf(s)]

-----------------------------------------------------------------------------
(* attendance.ts: findPresentSheet *)

Null == [t |-> "null"]

\* lines 30-33: the predicate handed to SheetNames.find
IsPresentName(n) ==
    LET s == trim(toLowerCase(n))
    IN  \/ includes(s, <<"p","r","e","s","e","n","t">>)
        \/ includes(s, <<"p","r","e","s","a","n","t">>)

\* faulty variant: the last matching name is taken instead of the first
findPresentSheet_LastMatch(w) ==
    LET hits == {i \in 1..Len(w.SheetNames) : IsPresentName(w.SheetNames[i])}
    IN  IF hits = {} THEN Null
        ELSE w.Sheets[w.SheetNames[CHOOSE i \in hits : \A j \in hits : j <= i]]

\* lines 29-36
findPresentSheet(w) ==
    LET hits == {i \in 1..Len(w.SheetNames) : IsPresentName(w.SheetNames[i])}
    IN  IF hits = {} THEN Null
        ELSE LET sheetName == w.SheetNames[CHOOSE i \in hits : \A j \in hits : i <= j]
             IN  IF sheetName = <<>> THEN Null
                 ELSE IF sheetName \in DOMAIN w.Sheets THEN w.Sheets[sheetName] ELSE Null

-----------------------------------------------------------------------------
(* Inputs of the classifier *)

SmallAlphabet == {"P", "A", "O", "T", " ", "2", ".", "/"}

\* every text over SmallAlphabet of at most n characters
RECURSIVE TextsUpTo(_)
TextsUpTo(n) ==
    IF n = 0 THEN {<<>>}
    ELSE LET S == TextsUpTo(n - 1)
         IN  S \cup {Append(s, c) : s \in {x \in S : Len(x) = n - 1}, c \in SmallAlphabet}

RecognizedSamples ==
    { <<"P">>, <<"P","R">>, <<"P","R","E","S","E","N","T">>,
      <<"P","/","2">>, <<"P","/","A","N","Y","T","H","I","N","G">>, <<"P","/","O","T","1">>,
      <<"A">>, <<"A","B","S","E","N","T">>, <<"W","O">>,
      <<"W","/","O">>, <<"W","E","E","K","O","F","F">>, <<"W","E","E","K"," ","O","F","F">> }

OtherSamples ==
    { <<"O","T","2",".","5">>, <<"O","T"," ","2">>, <<"O","T","2",".","5","0">>,
      <<"O","T","0","0","7">>, <<"P"," ","O","T","2">>, <<"P","R"," ","O","T","1",".","5">>,
      <<"P","R","E","S","E","N","T"," ","O","T","3">>, <<"A"," ","O","T","2">>, <<"O","T">>,
      <<"N","O","T"," ","5">>, <<"O","T",".","5">>, <<"O","T","2",".">>,
      <<"O","T","1",".","5",".","2">>, <<"T","O","T","A","L">>, <<"O","T","O","T","2">>,
      <<"W","E","E","K"," "," ","O","F","F">>, <<"A","B">>, <<"H">>,
      <<"P","P">>, <<"W","O","T">>, <<"P"," ","/">>,
      <<"W","O"," ","O","T"," ","4">>, <<"H","O","T"," ","1","0",".","2","5","X">> }

\* the same text in other letter case and with white space around it
Respellings(s) ==
    { s, toLowerCase(s), <<" ">> \o s \o <<"\t">>, <<"\n", " ">> \o toLowerCase(s) \o <<" ">> }

CellTexts ==
    UNION {Respellings(s) : s \in TextsUpTo(MaxCellLen) \cup RecognizedSamples \cup OtherSamples}

NumberCells == {Num(m, e) : m \in {0, 1, 7, 25, 30}, e \in {0, 1}}

RawCells == {Undefined} \cup {Text(s) : s \in CellTexts} \cup NumberCells

-----------------------------------------------------------------------------
(* State machine of the classifier: a raw cell is drawn, classifyCell runs *)

ClassifierIdle == raw = Undefined /\ cls = NoResult
LocatorIdle == wb = [SheetNames |-> <<>>, Sheets |-> <<>>] /\ located = NoResult
DirectoryIdle == sheet = <<>> /\ query = [number |-> Undefined, name |-> Undefined]
                 /\ employees = NoResult /\ found = NoResult
SummaryIdle == grid = [ws |-> [lastCol |-> 0, rows |-> <<>>], rowIndex |-> 0]
               /\ summary = NoResult
ServerIdle == store = [t |-> "absent"] /\ req = [path |-> "none"] /\ resp = NoResult
ConcurrentIdle == inflight = <<>>
RelayIdle == /\ stored = [t |-> "null"] /\ adminToken = "" /\ call = [route |-> "none"]
             /\ reply = [done |-> FALSE] /\ outbox = <<>> /\ images = 0
             /\ lastPut = [t |-> "null"]
MediaIdle == /\ clock = 0 /\ mediaTtl = 0 /\ uploads = {} /\ links = {}
             /\ fetched = [done |-> FALSE]
PageIdle == localStore = [t |-> "null"] /\ page = [mounted |-> FALSE]
OthersIdle == ConcurrentIdle /\ RelayIdle /\ MediaIdle /\ PageIdle

InitClassify ==
    /\ raw \in RawCells
    /\ cls = NoResult
    /\ LocatorIdle
    /\ DirectoryIdle
    /\ SummaryIdle
    /\ ServerIdle
    /\ OthersIdle

ClassifyCell ==
    /\ ~cls.done
    /\ cls' = Result(classifyCell(raw))
    /\ UNCHANGED <<raw, wb, located, sheet, query, employees, found, grid, summary, store, req, resp, otherVars>>

NextClassify == ClassifyCell

SpecClassify == InitClassify /\ [][NextClassify]_vars

-----------------------------------------------------------------------------
(* Properties of the classifier *)

\* the text classifyCell decides on: trimmed and upper-cased
CellCode == toUpperCase(trim(String(raw)))

PresentWords == { <<"P">>, <<"P","R">>, <<"P","R","E","S","E","N","T">> }
AbsentWords == { <<"A">>, <<"A","B","S","E","N","T">> }
WeekoffWords == { <<"W","O">>, <<"W","/","O">>, <<"W","E","E","K","O","F","F">>,
                  <<"W","E","E","K"," ","O","F","F">> }

PresentClass(s) == s \in PresentWords \/ (Len(s) >= 2 /\ s[1] = "P" /\ s[2] = "/")
Recognized(s) == PresentClass(s) \/ s \in AbsentWords \/ s \in WeekoffWords

Flags(r) == <<r.present, r.absent, r.weekoff>>

\* C1: a recognized code sets exactly the flag of its class, whatever the
\* letter case of the raw cell and the white space around it.
C1_RecognizedCodes ==
    cls.done =>
        /\ PresentClass(CellCode) => Flags(cls.v) = <<1, 0, 0>>
        /\ CellCode \in AbsentWords => Flags(cls.v) = <<0, 1, 0>>
        /\ CellCode \in WeekoffWords => Flags(cls.v) = <<0, 0, 1>>
        /\ (Recognized(CellCode) /\ raw.t = "text") =>
               \A x \in Respellings(raw.s) : classifyCell(Text(x)) = cls.v

C1_Witness ==
    /\ cls.done
    /\ raw = Text(<<"\n"," ","w","e","e","k"," ","o","f","f"," ">>)
    /\ Flags(cls.v) = <<0, 0, 1>>

\* C2: classifyCell returns for every raw cell; at most one flag is 1; an
\* empty or blank cell gives all zeros; an unrecognized code gives no flag.
C2_Total ==
    cls.done =>
        /\ DOMAIN cls.v = {"present", "absent", "weekoff", "ot"}
        /\ \A f \in {"present", "absent", "weekoff"} : cls.v[f] \in {0, 1}
        /\ cls.v.ot.m \in Nat /\ cls.v.ot.e \in Nat
        /\ cls.v.present + cls.v.absent + cls.v.weekoff <= 1
        /\ CellCode = <<>> => (Flags(cls.v) = <<0, 0, 0>> /\ cls.v.ot = Zero)
        /\ ~Recognized(CellCode) => Flags(cls.v) = <<0, 0, 0>>

C2_Witness ==
    /\ cls.done
    /\ raw = Text(<<" ", "\t">>)
    /\ cls.v = [present |-> 0, absent |-> 0, weekoff |-> 0, ot |-> Zero]

\* a decimal number as the pattern of line 66 accepts it: digits, or digits,
\* a period and digits
IsDecimalText(t) ==
    \E n \in 1..Len(t) :
        /\ \A i \in 1..n : IsDigit(t[i])
        /\ \/ n = Len(t)
           \/ /\ n + 2 <= Len(t)
              /\ t[n + 1] = "."
              /\ \A i \in (n + 2)..Len(t) : IsDigit(t[i])

\* the digits of t, read from the left, as a natural number
RECURSIVE Horner(_, _)
Horner(acc, t) == IF t = <<>> THEN acc
                  ELSE Horner(IF IsDigit(Head(t)) THEN 10 * acc + DigitVal(Head(t)) ELSE acc,
                              Tail(t))

\* d is the value of the decimal text t
ValueIs(d, t) ==
    LET dot == {i \in 1..Len(t) : t[i] = "."}
        fr == IF dot = {} THEN 0 ELSE Len(t) - (CHOOSE i \in dot : TRUE)
    IN  d.m * Pow10(fr) = Horner(0, t) * Pow10(d.e)

\* the text after the leftmost "OT" of s and the white space that follows it
AfterFirstOT(s) ==
    LET i == CHOOSE k \in 1..(Len(s) - 1) :
                 /\ SubSeq(s, k, k + 1) = <<"O","T">>
                 /\ \A j \in 1..(k - 1) : SubSeq(s, j, j + 1) # <<"O","T">>
        a == SubSeq(s, i + 2, Len(s))
        sp == {k \in 0..Len(a) : \A j \in 1..k : IsSpace(a[j])}
    IN  SubSeq(a, (CHOOSE k \in sp : \A j \in sp : j <= k) + 1, Len(a))

\* C3: ot is the number that follows the leftmost "OT" (0 when none follows
\* or the cell holds no "OT"), whatever the flags are; "OT<n>" has no flag.
C3_Overtime ==
    cls.done =>
        /\ IF ~includes(CellCode, <<"O","T">>) THEN cls.v.ot = Zero
           ELSE LET r == AfterFirstOT(CellCode)
                    nums == {k \in 1..Len(r) : IsDecimalText(SubSeq(r, 1, k))}
                IN  IF nums = {} THEN cls.v.ot = Zero
                    ELSE ValueIs(cls.v.ot,
                                 SubSeq(r, 1, CHOOSE k \in nums : \A j \in nums : j <= k))
        /\ (startsWith(CellCode, <<"O","T">>) /\ IsDecimalText(Drop(CellCode, 2))) =>
               /\ Flags(cls.v) = <<0, 0, 0>>
               /\ ValueIs(cls.v.ot, Drop(CellCode, 2))

C3_Witness ==
    /\ cls.done
    /\ raw = Text(<<"O","T","2",".","5">>)
    /\ cls.v = [present |-> 0, absent |-> 0, weekoff |-> 0, ot |-> [m |-> 25, e |-> 1]]

\* C4: a presence word, a blank and an overtime token ("P OT2"): the overtime
\* is extracted and no flag is set.
C4_PresenceWithOvertime ==
    cls.done =>
        \A w \in PresentWords :
            LET o == Drop(CellCode, Len(w) + 1)
            IN  ( /\ startsWith(CellCode, w \o <<" ">>)
                  /\ startsWith(o, <<"O","T">>)
                  /\ IsDecimalText(Drop(o, 2)) )
                => /\ Flags(cls.v) = <<0, 0, 0>>
                   /\ ValueIs(cls.v.ot, Drop(o, 2))

C4_Witness ==
    /\ cls.done
    /\ raw = Text(<<"P"," ","O","T","2">>)
    /\ cls.v = [present |-> 0, absent |-> 0, weekoff |-> 0, ot |-> [m |-> 2, e |-> 0]]

-----------------------------------------------------------------------------
(* State machine of the sheet locator: a workbook is drawn, findPresentSheet runs *)

SheetNameSamples ==
    { <<"P","R","E","S","E","N","T"," ","J","A","N">>,
      <<"P","r","e","s","a","n","t">>,
      <<" ","p","r","e","s","e","n","t"," ">>,
      <<"A","t","t","e","n","d","a","n","c","e">>,
      <<"S","h","e","e","t","1">>,
      <<"A","B","S","E","N","T">>,
      <<"P","r","e"," ","s","e","n","t">>,
      <<"r","e","p","r","e","s","e","n","t","e","d">> }

\* sheet names in stored order, no name twice
RECURSIVE NameListsUpTo(_)
NameListsUpTo(n) ==
    IF n = 0 THEN {<<>>}
    ELSE LET S == NameListsUpTo(n - 1)
         IN  S \cup {Append(l, x) : l \in {y \in S : Len(y) = n - 1}, x \in SheetNameSamples}

NoRepeat(l) == \A i, j \in 1..Len(l) : l[i] = l[j] => i = j

\* the worksheet stored under name n (each name has a sheet of its own)
SheetNamed(n) == [of |-> n]

Workbooks ==
    { [SheetNames |-> l, Sheets |-> [n \in {l[i] : i \in 1..Len(l)} |-> SheetNamed(n)]] :
        l \in {x \in NameListsUpTo(MaxSheets) : NoRepeat(x)} }

InitLocate ==
    /\ wb \in Workbooks
    /\ located = NoResult
    /\ ClassifierIdle
    /\ DirectoryIdle
    /\ SummaryIdle
    /\ ServerIdle
    /\ OthersIdle

FindPresentSheet ==
    /\ ~located.done
    /\ located' = Result(findPresentSheet(wb))
    /\ UNCHANGED <<raw, cls, wb, sheet, query, employees, found, grid, summary, store, req, resp, otherVars>>

NextLocate == FindPresentSheet

SpecLocate == InitLocate /\ [][NextLocate]_vars

\* the positions of the names that contain "present" or "presant"
MatchingSheets ==
    {i \in 1..Len(wb.SheetNames) :
        \E k \in 0..(Len(wb.SheetNames[i]) - 7) :
            LET w == toLowerCase(SubSeq(wb.SheetNames[i], k + 1, k + 7))
            IN  w = <<"p","r","e","s","e","n","t">> \/ w = <<"p","r","e","s","a","n","t">>}

\* C5: the sheet of the first matching name in stored order is returned,
\* never that of a later match; with no match the result is null.
C5_FirstPresentSheet ==
    located.done =>
        IF MatchingSheets = {} THEN located.v = Null
        ELSE \E i \in MatchingSheets :
                /\ \A j \in MatchingSheets : i <= j
                /\ located.v = wb.Sheets[wb.SheetNames[i]]
                /\ \A j \in MatchingSheets : j > i => located.v # wb.Sheets[wb.SheetNames[j]]

C5_Witness ==
    /\ located.done
    /\ Len(wb.SheetNames) = 3
    /\ wb.SheetNames[1] = <<"S","h","e","e","t","1">>
    /\ wb.SheetNames[2] = <<"P","r","e","s","a","n","t">>
    /\ wb.SheetNames[3] = <<"P","R","E","S","E","N","T"," ","J","A","N">>
    /\ located.v = SheetNamed(<<"P","r","e","s","a","n","t">>)

-----------------------------------------------------------------------------
(* attendance.ts: readEmployeesFromSheet and the row scan of GET /summary.  *)
(* A worksheet is the sequence of the rows of its used range, top to       *)
(* bottom; a row holds the raw values of its cells in column B (b) and     *)
(* column C (c).                                                           *)

\* lines 41-48: the rows that are not ignored, as { number, name }, top to bottom
RECURSIVE pushRows(_, _)
pushRows(ws, r) ==
    IF r > Len(ws) THEN <<>>
    ELSE LET number == normalizeStr(ws[r].b)
             name == normalizeStr(ws[r].c)
         IN  IF isIgnored(number) \/ isIgnored(name) THEN pushRows(ws, r + 1)
             ELSE <<[number |-> number, name |-> name]>> \o pushRows(ws, r + 1)

\* line 52: e.number || e.name
keyOf(e) == IF e.number # <<>> THEN e.number ELSE e.name

\* lines 50-55: a Map keeps the first entry of every key, in insertion order
RECURSIVE dedupe(_, _)
dedupe(es, keys) ==
    IF es = <<>> THEN <<>>
    ELSE IF keyOf(Head(es)) \in keys THEN dedupe(Tail(es), keys)
         ELSE <<Head(es)>> \o dedupe(Tail(es), keys \cup {keyOf(Head(es))})

\* faulty variant: map.set without the has() test; the Map keeps the position of the
\* first entry of a key and the value of the last
RECURSIVE dedupeLastWins(_, _)
dedupeLastWins(es, keys) ==
    IF es = <<>> THEN <<>>
    ELSE IF keyOf(Head(es)) \in keys THEN dedupeLastWins(Tail(es), keys)
         ELSE LET same == SelectSeq(es, LAMBDA e : keyOf(e) = keyOf(Head(es)))
              IN  <<same[Len(same)]>> \o dedupeLastWins(Tail(es), keys \cup {keyOf(Head(es))})

readEmployees_LastWins(ws) == dedupeLastWins(pushRows(ws, 1), {})

\* faulty variant: only the number cell decides whether a row is ignored
RECURSIVE pushRowsNumberOnly(_, _)
pushRowsNumberOnly(ws, r) ==
    IF r > Len(ws) THEN <<>>
    ELSE LET number == normalizeStr(ws[r].b)
             name == normalizeStr(ws[r].c)
         IN  IF isIgnored(number) THEN pushRowsNumberOnly(ws, r + 1)
             ELSE <<[number |-> number, name |-> name]>> \o pushRowsNumberOnly(ws, r + 1)

readEmployees_NumberOnly(ws) == dedupe(pushRowsNumberOnly(ws, 1), {})

\* lines 38-56
readEmployeesFromSheet(ws) == dedupe(pushRows(ws, 1), {})

\* a query parameter that JavaScript treats as false: absent or empty
Falsy(q) == q.t = "undefined" \/ (q.t = "text" /\ q.s = <<>>)

\* lines 142-143: number ? normalizeForCompare(number) : undefined
\* (undefined and "" are both falsy further down, and both are <<>> here)
normQuery(q) == IF Falsy(q) THEN <<>> ELSE normalizeForCompare(q.s)

\* lines 148-157: whether row r is the match
rowMatches(ws, r, number, name) ==
    LET b == normalizeStr(ws[r].b)
        c == normalizeStr(ws[r].c)
        normNumber == normQuery(number)
        normName == normQuery(name)
    IN  /\ ~(isIgnored(b) \/ isIgnored(c))
        /\ \/ normNumber # <<>> /\ normalizeForCompare(b) = normNumber
           \/ normName # <<>> /\ normalizeForCompare(c) = normName

\* lines 145-162: the loop from the top row, left at the first match
RECURSIVE scanFrom(_, _, _, _)
scanFrom(ws, r, number, name) ==
    IF r > Len(ws) THEN [foundRow |-> -1, foundEmp |-> Null]
    ELSE IF rowMatches(ws, r, number, name)
         THEN [foundRow |-> r,
               foundEmp |-> [number |-> normalizeStr(ws[r].b), name |-> normalizeStr(ws[r].c)]]
         ELSE scanFrom(ws, r + 1, number, name)

\* faulty variant: the whole sheet is scanned for the number before the name is tried
scanRows_NumberFirst(ws, number, name) ==
    IF scanFrom(ws, 1, number, Undefined).foundRow # -1
    THEN scanFrom(ws, 1, number, Undefined)
    ELSE scanFrom(ws, 1, Undefined, name)

scanRows(ws, number, name) == scanFrom(ws, 1, number, name)

-----------------------------------------------------------------------------
(* State machine of the directory and the resolver: a worksheet is drawn   *)
(* and one request reads its directory or scans its rows for a query.      *)

JohnDoe == Text(<<"J","o","h","n"," ","D","o","e">>)
N007 == Text(<<"0","0","7">>)

\* column B cells, each in a row named John Doe
NumberCellSamples ==
    { Text(<<" ","0","0","7"," ">>), Text(<<"0","0","0","7">>),
      Text(<<"a","1">>), Text(<<"A","1">>),
      Text(<<"A"," "," ","1">>), Text(<<"A"," ","1">>),
      Text(<<"N","o",".">>), Text(<<"n","o">>), Text(<<".">>), Text(<<".",".">>),
      Undefined, Num(7, 0) }

\* column C cells, each in a row numbered 007
NameCellSamples ==
    { Text(<<>>), Undefined, Text(<<"N","O">>), Text(<<" ","."," ">>),
      Text(<<"j","o","h","n"," "," ","d","o","e",".">>), Text(<<"J","a","n","e">>) }

RowSamples ==
    {[b |-> x, c |-> JohnDoe] : x \in NumberCellSamples}
    \cup {[b |-> N007, c |-> y] : y \in NameCellSamples}

RECURSIVE SheetsUpTo(_)
SheetsUpTo(n) ==
    IF n = 0 THEN {<<>>}
    ELSE LET S == SheetsUpTo(n - 1)
         IN  S \cup {Append(ws, row) : ws \in {x \in S : Len(x) = n - 1}, row \in RowSamples}

\* the number and name parameters of a /summary request
NumberQueries == { Undefined, N007, Text(<<"a","1">>), Text(<<"n","o">>), Text(<<".",".">>),
                   Text(<<"7">>), Text(<<" ","0","0","7",".">>) }
NameQueries == { Undefined, Text(<<>>), Text(<<"J","O","H","N"," ","D","O","E">>) }

InitDirectory ==
    /\ sheet \in SheetsUpTo(MaxRows)
    /\ query = [number |-> Undefined, name |-> Undefined]
    /\ employees = NoResult
    /\ found = NoResult
    /\ ClassifierIdle
    /\ LocatorIdle
    /\ SummaryIdle
    /\ ServerIdle
    /\ OthersIdle

\* GET /employees, line 119
ReadEmployees ==
    /\ ~employees.done /\ ~found.done
    /\ employees' = Result(readEmployeesFromSheet(sheet))
    /\ found' = NoResult
    /\ query' = [number |-> Undefined, name |-> Undefined]
    /\ UNCHANGED <<raw, cls, wb, located, sheet, grid, summary, store, req, resp, otherVars>>

\* GET /summary, lines 127 and 141-162: the scan runs when number or name is given
ScanRows ==
    \E number \in NumberQueries, name \in NameQueries :
        /\ ~employees.done /\ ~found.done
        /\ ~(Falsy(number) /\ Falsy(name))
        /\ query' = [number |-> number, name |-> name]
        /\ found' = Result(scanRows(sheet, number, name))
        /\ employees' = NoResult
        /\ UNCHANGED <<raw, cls, wb, located, sheet, grid, summary, store, req, resp, otherVars>>

NextDirectory == ReadEmployees \/ ScanRows

SpecDirectory == InitDirectory /\ [][NextDirectory]_vars

-----------------------------------------------------------------------------
(* Properties of the directory and the resolver *)

\* the trimmed text of the cells of row r
NumberText(r) == trim(String(sheet[r].b))
NameText(r) == trim(String(sheet[r].c))

\* "no" or "no." in any letter case, or a single period
IgnoreToken(s) ==
    \/ toLowerCase(s) \in { <<"n","o">>, <<"n","o",".">> }
    \/ s = <<".">>

\* a row the directory lists: neither cell is empty or an ignore token
Listed(r) ==
    /\ NumberText(r) # <<>> /\ ~IgnoreToken(NumberText(r))
    /\ NameText(r) # <<>> /\ ~IgnoreToken(NameText(r))

EntryOf(r) == [number |-> NumberText(r), name |-> NameText(r)]
IdentityKey(e) == IF e.number # <<>> THEN e.number ELSE e.name

\* the listed rows that no listed row above shares its identity key with
FirstOccurrences ==
    {r \in 1..Len(sheet) :
        /\ Listed(r)
        /\ \A q \in 1..(r - 1) : Listed(q) => IdentityKey(EntryOf(q)) # IdentityKey(EntryOf(r))}

\* C6: no two entries share an identity key; the entry of a key is that of
\* the topmost row with the key; entries are in the order of those rows.
C6_DedupeFirstWins ==
    employees.done =>
        LET E == employees.v
        IN  /\ \A i, j \in 1..Len(E) : IdentityKey(E[i]) = IdentityKey(E[j]) => i = j
            /\ Len(E) = Cardinality(FirstOccurrences)
            /\ \A k \in 1..Len(E) :
                   \E r \in FirstOccurrences :
                       /\ Cardinality({q \in FirstOccurrences : q < r}) = k - 1
                       /\ E[k] = EntryOf(r)

\* two rows of one key with different names: the upper one is listed
C6_Witness ==
    /\ employees.done
    /\ Len(sheet) = 2
    /\ NumberText(1) = NumberText(2)
    /\ NameText(1) # NameText(2)
    /\ Listed(1) /\ Listed(2)
    /\ employees.v = <<EntryOf(1)>>

\* an identity key without letter case and with its white space collapsed
RECURSIVE Squeeze(_, _)
Squeeze(s, gap) ==
    IF s = <<>> THEN <<>>
    ELSE IF IsSpace(Head(s)) THEN Squeeze(Tail(s), TRUE)
    ELSE (IF gap THEN <<" ">> ELSE <<>>) \o <<UpperChar(Head(s))>> \o Squeeze(Tail(s), FALSE)

FoldedKey(e) == Squeeze(trim(IdentityKey(e)), FALSE)

\* C7: rows whose identity keys are equal after normalization (letter case
\* ignored, white space collapsed) give a single directory entry.
C7_NormalizedKeysMerged ==
    employees.done =>
        \A i, j \in 1..Len(employees.v) :
            FoldedKey(employees.v[i]) = FoldedKey(employees.v[j]) => i = j

\* C8: a row with "no", "no." (any case) or "." in its number or name cell is
\* neither listed by the directory nor selected by the row scan.
C8_IgnoredRows ==
    /\ employees.done =>
           /\ \A i \in 1..Len(employees.v) :
                  ~IgnoreToken(employees.v[i].number) /\ ~IgnoreToken(employees.v[i].name)
           /\ \A i \in 1..Len(employees.v) :
                  \E r \in 1..Len(sheet) :
                      /\ employees.v[i] = EntryOf(r)
                      /\ ~IgnoreToken(NumberText(r)) /\ ~IgnoreToken(NameText(r))
    /\ (found.done /\ found.v.foundRow # -1) =>
           /\ found.v.foundRow \in 1..Len(sheet)
           /\ ~IgnoreToken(NumberText(found.v.foundRow))
           /\ ~IgnoreToken(NameText(found.v.foundRow))

\* the header row is asked for by its own number and is not found
C8_Witness ==
    /\ found.done
    /\ query = [number |-> Text(<<"n","o">>), name |-> Undefined]
    /\ \E r \in 1..Len(sheet) : sheet[r].b = Text(<<"N","o",".">>)
    /\ found.v.foundRow = -1

\* rows with an empty name cell and a number cell that is not empty, a header
\* token or a period
EmptyNameRows ==
    {r \in 1..Len(sheet) :
        NameText(r) = <<>> /\ NumberText(r) # <<>> /\ ~IgnoreToken(NumberText(r))}

\* C9 as stated: a row with an empty name and a valid number is in the
\* directory and is found through its number.
C9_EmptyNameIncluded ==
    /\ employees.done =>
           \A r \in EmptyNameRows :
               \E i \in 1..Len(employees.v) : employees.v[i].number = NumberText(r)
    /\ (found.done /\ Falsy(query.name) /\ ~Falsy(query.number)) =>
           \A r \in EmptyNameRows :
               query.number.s = NumberText(r) => found.v.foundRow # -1

\* C9 as amended: a row with an empty name cell is skipped although its
\* number is valid; a row is listed, and found through its number, when both
\* cells are non-empty and no ignore token.
C9_EmptyNameSkipped ==
    /\ employees.done =>
           /\ \A i \in 1..Len(employees.v) : employees.v[i].name # <<>>
           /\ (\A r \in 1..Len(sheet) : r \in EmptyNameRows) => employees.v = <<>>
           /\ \A r \in 1..Len(sheet) :
                  Listed(r) => \E i \in 1..Len(employees.v) :
                                   employees.v[i].number = NumberText(r)
    /\ (found.done /\ Falsy(query.name) /\ ~Falsy(query.number)) =>
           /\ found.v.foundRow # -1 => found.v.foundRow \notin EmptyNameRows
           /\ (\A r \in 1..Len(sheet) : r \in EmptyNameRows) => found.v.foundRow = -1
           /\ \A r \in 1..Len(sheet) :
                  (Listed(r) /\ query.number.s = NumberText(r) /\ removePeriods(NumberText(r)) # <<>>)
                  => found.v.foundRow \in 1..r

\* only rows with an empty name: the directory is empty
C9_Witness ==
    /\ employees.done
    /\ Len(sheet) = 1
    /\ sheet[1] = [b |-> N007, c |-> Text(<<>>)]
    /\ employees.v = <<>>

\* a text without its periods, trimmed, its white-space runs single blanks,
\* in upper case
NormalForm(s) == Squeeze(trim(SelectSeq(s, LAMBDA ch : ch # ".")), FALSE)

\* the listed rows whose number (name) cell has the normal form of the query
NumberMatches == {r \in 1..Len(sheet) :
                     Listed(r) /\ NormalForm(NumberText(r)) = NormalForm(query.number.s)}
NameMatches == {r \in 1..Len(sheet) :
                   Listed(r) /\ NormalForm(NameText(r)) = NormalForm(query.name.s)}

NumberOnly == found.done /\ ~Falsy(query.number) /\ Falsy(query.name)
NameOnly == found.done /\ Falsy(query.number) /\ ~Falsy(query.name)

\* C10 as stated: a row is matched exactly when its cell and the query have
\* equal normal forms ("007" matches " 007 " and not "0007").
C10_NormalizedEquality ==
    /\ NumberOnly => /\ found.v.foundRow # -1 <=> NumberMatches # {}
                     /\ found.v.foundRow # -1 => found.v.foundRow \in NumberMatches
    /\ NameOnly => /\ found.v.foundRow # -1 <=> NameMatches # {}
                   /\ found.v.foundRow # -1 => found.v.foundRow \in NameMatches

\* C10 as amended: the same when the normal form of the query is not empty;
\* a query whose normal form is empty matches no row.
C10_NormalizedEqualityNonEmpty ==
    /\ NumberOnly =>
           IF NormalForm(query.number.s) = <<>> THEN found.v.foundRow = -1
           ELSE /\ found.v.foundRow # -1 <=> NumberMatches # {}
                /\ found.v.foundRow # -1 => found.v.foundRow \in NumberMatches
    /\ NameOnly =>
           IF NormalForm(query.name.s) = <<>> THEN found.v.foundRow = -1
           ELSE /\ found.v.foundRow # -1 <=> NameMatches # {}
                /\ found.v.foundRow # -1 => found.v.foundRow \in NameMatches

\* "007" passes over "0007" and matches " 007 "
C10_Witness ==
    /\ NumberOnly
    /\ query.number = N007
    /\ Len(sheet) = 2
    /\ sheet[1].b = Text(<<"0","0","0","7">>)
    /\ sheet[2].b = Text(<<" ","0","0","7"," ">>)
    /\ found.v.foundRow = 2

-----------------------------------------------------------------------------
(* The resolver's scan order.                                              *)

\* the normal form of a query parameter; empty when the parameter is not supplied
QueryForm(q) == IF Falsy(q) THEN <<>> ELSE NormalForm(q.s)

\* rows that are not ignored and whose number or name cell has the normal form
\* of the corresponding supplied query parameter
EqualRows == {r \in 1..Len(sheet) :
                 /\ Listed(r)
                 /\ \/ ~Falsy(query.number) /\ NormalForm(NumberText(r)) = QueryForm(query.number)
                    \/ ~Falsy(query.name) /\ NormalForm(NameText(r)) = QueryForm(query.name)}

\* the same, a parameter with an empty normal form matching no row
EqualNonEmptyRows == {r \in 1..Len(sheet) :
                         /\ Listed(r)
                         /\ \/ /\ QueryForm(query.number) # <<>>
                               /\ NormalForm(NumberText(r)) = QueryForm(query.number)
                            \/ /\ QueryForm(query.name) # <<>>
                               /\ NormalForm(NameText(r)) = QueryForm(query.name)}

FirstOf(S) == IF S = {} THEN -1 ELSE CHOOSE r \in S : \A o \in S : r <= o

\* C11 as stated: the scan returns the topmost non-ignored row whose number
\* cell equals the number query or whose name cell equals the name query,
\* after normalization, and never a later one.
C11_FirstMatch == found.done => found.v.foundRow = FirstOf(EqualRows)

\* C11 as amended: the same, for query parameters whose normal form is not
\* empty; a parameter with an empty normal form selects no row.
C11_FirstMatchNonEmpty == found.done => found.v.foundRow = FirstOf(EqualNonEmptyRows)

\* number and name are both supplied and match different rows: the upper
\* row, matched by name only, is returned
C11_Witness ==
    /\ found.done
    /\ query.number = N007
    /\ query.name = Text(<<"J","O","H","N"," ","D","O","E">>)
    /\ Len(sheet) = 2
    /\ sheet[1] = [b |-> Text(<<"a","1">>), c |-> JohnDoe]
    /\ sheet[2] = [b |-> N007, c |-> Text(<<"J","a","n","e">>)]
    /\ found.v.foundRow = 1

-----------------------------------------------------------------------------
(* JavaScript numbers as the summarizer sees them: a finite number is a    *)
(* decimal [m, e] (m may be negative), and there are Infinity and -Infinity *)
(* and NaN.  Sums are exact; the inputs drawn below are exact in binary.    *)

NaN == [nan |-> TRUE]
Infinity(neg) == [inf |-> TRUE, neg |-> neg]
IsNaN(x) == "nan" \in DOMAIN x
IsFiniteNumber(x) == DOMAIN x = {"m", "e"}

\* a + b of two finite numbers
DecAdd(a, b) ==
    IF a.e >= b.e THEN Dec(a.m + b.m * Pow10(a.e - b.e), a.e)
    ELSE Dec(a.m * Pow10(b.e - a.e) + b.m, b.e)

\* the largest decimal exponent of a finite double
MaxDoubleExp == 308

\* Number.parseFloat(t): white space is skipped, then the longest prefix that
\* is a decimal literal is taken: a sign, then Infinity or digits with an
\* optional fraction and an optional exponent; NaN when there is none
NumberParseFloat(t) ==
    LET s0 == Drop(t, SpaceRun(t))
        signed == s0 # <<>> /\ Head(s0) \in {"+", "-"}
        neg == s0 # <<>> /\ Head(s0) = "-"
        s == IF signed THEN Tail(s0) ELSE s0
        n == DigitRun(s)
        dot == n < Len(s) /\ s[n + 1] = "."
        k == IF dot THEN DigitRun(Drop(s, n + 1)) ELSE 0
        body == IF dot /\ (n + k > 0) THEN n + 1 + k ELSE n
        r == Drop(s, body)
        esign == Len(r) >= 2 /\ r[2] \in {"+", "-"}
        edig == IF r # <<>> /\ r[1] \in {"e", "E"}
                THEN DigitRun(Drop(r, IF esign THEN 2 ELSE 1)) ELSE 0
        eval == IF edig = 0 THEN 0
                ELSE DigitsVal(SubSeq(r, (IF esign THEN 3 ELSE 2), (IF esign THEN 2 ELSE 1) + edig))
        exp == IF edig > 0 /\ esign /\ r[2] = "-" THEN 0 - eval ELSE eval
        mant == DigitsVal(SubSeq(s, 1, n)) * Pow10(k) + DigitsVal(SubSeq(s, n + 2, n + 1 + k))
        sgn == IF neg THEN 0 - 1 ELSE 1
    IN  IF startsWith(s, <<"I","n","f","i","n","i","t","y">>) THEN Infinity(neg)
        ELSE IF n + k = 0 THEN NaN
        ELSE IF mant = 0 THEN Zero
        ELSE IF Len(NatToStr(mant)) - k + exp - 1 > MaxDoubleExp THEN Infinity(neg)
        ELSE IF exp >= 0 THEN Dec(sgn * mant * Pow10(exp), k)
        ELSE Dec(sgn * mant, k - exp)

-----------------------------------------------------------------------------
(* attendance.ts: summarizeRow.  A worksheet is its used range, of which    *)
(* the last column is kept, and its rows; a row holds its cells B and C and *)
(* the cells of its other columns, where there are any.                     *)

FirstDayCol == 3
LastDayCol == 33
WeekoffCol == 37
OtCol == 41

\* ws[XLSX.utils.encode_cell({ r, c })]?.v
CellAt(ws, r, c) ==
    IF c = 1 THEN ws.rows[r].b
    ELSE IF c = 2 THEN ws.rows[r].c
    ELSE IF c \in DOMAIN ws.rows[r].cells THEN ws.rows[r].cells[c]
    ELSE Undefined

\* faulty variant: the scan runs to the last column of the used range
lastDayCol_Uncapped(ws) == ws.lastCol

lastDayCol(ws) == IF ws.lastCol < LastDayCol THEN ws.lastCol ELSE LastDayCol

\* faulty variant: the scan starts at the name column
dayColumns_FromNameColumn(ws) == (FirstDayCol - 1)..lastDayCol(ws)

\* the columns the loop of line 87 visits
dayColumns(ws) == FirstDayCol..lastDayCol(ws)

\* lines 87-94: the totals of the classifications of the columns cols,
\* visited from the left
RECURSIVE sumDays(_, _, _)
sumDays(ws, rowIndex, cols) ==
    IF cols = {}
    THEN [present |-> 0, absent |-> 0, weekoff |-> 0, otHours |-> Zero]
    ELSE LET c == CHOOSE x \in cols : \A y \in cols : x <= y
             k == classifyCell(CellAt(ws, rowIndex, c))
             rest == sumDays(ws, rowIndex, cols \ {c})
         IN  [present |-> k.present + rest.present,
              absent |-> k.absent + rest.absent,
              weekoff |-> k.weekoff + rest.weekoff,
              otHours |-> DecAdd(k.ot, rest.otHours)]

\* faulty variant: the summary column is added to the total
override_Adds(total, v) ==
    LET parsed == NumberParseFloat(String(v))
    IN  IF IsFiniteNumber(parsed) THEN DecAdd(total, parsed) ELSE total

\* lines 98-101: const parsed = Number.parseFloat(String(cell?.v ?? ""));
\* if (!Number.isNaN(parsed)) total = parsed;
override(total, v) ==
    LET parsed == NumberParseFloat(String(v))
    IN  IF ~IsNaN(parsed) THEN parsed ELSE total

summarizeRow(ws, rowIndex) ==
    LET days == sumDays(ws, rowIndex, dayColumns(ws))
    IN  [present |-> days.present,
         absent |-> days.absent,
         weekoff |-> override(Dec(days.weekoff, 0), CellAt(ws, rowIndex, WeekoffCol)),
         otHours |-> override(days.otHours, CellAt(ws, rowIndex, OtCol))]

-----------------------------------------------------------------------------
(* State machine of the summarizer: a worksheet and a row index are drawn  *)
(* and summarizeRow is applied to them.                                     *)

CodeP == Text(<<"P">>)
CodeA == Text(<<"A">>)
CodeWO == Text(<<"W","O">>)
CodePOT == Text(<<"P"," ","O","T","1",".","5">>)
CodeOT == Text(<<"O","T","2">>)

\* what a day cell of a short row holds
DayCellSamples == {CodeP, CodeA, CodeWO, CodePOT}

\* what a summary column holds
OverrideSamples ==
    { Undefined, Text(<<"3">>), Num(25, 1), Text(<<>>), Text(<<"x">>),
      Text(<<"-","1">>), Text(<<" ","1","e","2">>),
      Text(<<"I","n","f","i","n","i","t","y">>) }

\* the summary columns of one row: one of them, or both alike
OverridePairs ==
    {<<x, Undefined>> : x \in OverrideSamples}
    \cup {<<Undefined, x>> : x \in OverrideSamples}
    \cup {<<x, x>> : x \in OverrideSamples}

\* the last column of the used range
LastColSamples == {0, FirstDayCol - 1, FirstDayCol + 1, LastDayCol, OtCol + 4}

\* the cells of the summary columns, where there are any
OverrideCells(p) ==
    [c \in {k \in {WeekoffCol, OtCol} : (IF k = WeekoffCol THEN p[1] ELSE p[2]) # Undefined} |->
        IF c = WeekoffCol THEN p[1] ELSE p[2]]

\* day cells from column 3 on
DayCells(days) == [c \in FirstDayCol..(FirstDayCol + Len(days) - 1) |-> days[c - FirstDayCol + 1]]

DaysUpTo(n) == UNION {[1..k -> DayCellSamples] : k \in 0..n}

\* a present code in column A and in the columns after the day window
StrayCells == [c \in {0, LastDayCol + 1, LastDayCol + 2} |-> CodeP]

\* rows of a few days
ShortRows ==
    {[b |-> N007, c |-> JohnDoe, cells |-> OverrideCells(p) @@ DayCells(d)] :
        p \in OverridePairs, d \in DaysUpTo(MaxDays)}

\* the same with present codes around the day window
StrayRows ==
    {[b |-> CodeP, c |-> CodeP, cells |-> OverrideCells(p) @@ DayCells(d) @@ StrayCells] :
        p \in OverridePairs, d \in DaysUpTo(MaxDays)}

\* rows holding the same code in every column up to the last summary column
FilledRows ==
    {[b |-> v, c |-> v, cells |-> OverrideCells(p) @@ [c \in 0..(OtCol + 4) |-> v]] :
        p \in OverridePairs, v \in {CodeP, CodeA, CodeWO, CodeOT}}

\* a row of another employee
OtherRow == [b |-> Text(<<"a","1">>), c |-> Text(<<"J","a","n","e">>),
             cells |-> [c \in 0..(OtCol + 4) |-> IF c = WeekoffCol THEN Num(9, 0) ELSE CodeA]]

\* the row to summarize alone in the sheet, or below the row of another employee
RowsAndIndex ==
    {[rows |-> <<row>>, rowIndex |-> 1] : row \in ShortRows \cup FilledRows}
    \cup {[rows |-> <<OtherRow, row>>, rowIndex |-> 2] : row \in StrayRows \cup FilledRows}

InitSummary ==
    /\ \E x \in RowsAndIndex, n \in LastColSamples :
           grid = [ws |-> [lastCol |-> n, rows |-> x.rows], rowIndex |-> x.rowIndex]
    /\ summary = NoResult
    /\ ClassifierIdle
    /\ LocatorIdle
    /\ DirectoryIdle
    /\ ServerIdle
    /\ OthersIdle

SummarizeRow ==
    /\ ~summary.done
    /\ summary' = Result(summarizeRow(grid.ws, grid.rowIndex))
    /\ UNCHANGED <<raw, cls, wb, located, sheet, query, employees, found, grid, store, req, resp, otherVars>>

NextSummary == SummarizeRow

SpecSummary == InitSummary /\ [][NextSummary]_vars

-----------------------------------------------------------------------------
(* The summary of a row, stated over the columns of the worksheet.         *)

SummarizedCell(c) == CellAt(grid.ws, grid.rowIndex, c)

\* columns 3 through the lesser of the last used column and 33
Window == {c \in 3..33 : c <= grid.ws.lastCol}

\* how many cells of the columns S classify as present / absent / weekoff
CountOf(S, field) == Cardinality({c \in S : classifyCell(SummarizedCell(c))[field] = 1})

\* the overtime hours of the cells of the columns S
RECURSIVE OtSum(_)
OtSum(S) == IF S = {} THEN Zero
            ELSE LET c == CHOOSE x \in S : TRUE
                 IN  DecAdd(classifyCell(SummarizedCell(c)).ot, OtSum(S \ {c}))

\* C12: present and absent count the cells of columns 3..min(last used
\* column, 33) of the given row and no other cell, and so do weekoff and
\* otHours where no summary column stands in; at most 31 columns are
\* scanned, and none when the last used column is below 3.
C12_DayWindow ==
    summary.done =>
        /\ summary.v.present = CountOf(Window, "present")
        /\ summary.v.absent = CountOf(Window, "absent")
        /\ SummarizedCell(37) = Undefined => summary.v.weekoff = Dec(CountOf(Window, "weekoff"), 0)
        /\ SummarizedCell(41) = Undefined => summary.v.otHours = OtSum(Window)
        /\ Cardinality(Window) <= 31
        /\ grid.ws.lastCol < 3 =>
               /\ summary.v.present = 0
               /\ summary.v.absent = 0
               /\ SummarizedCell(37) = Undefined => summary.v.weekoff = Zero
               /\ SummarizedCell(41) = Undefined => summary.v.otHours = Zero

\* present codes stand in columns A, B, C, AI and AJ and in one day column
\* of the second row; the row above is full of absent codes
C12_Witness ==
    /\ summary.done
    /\ grid.rowIndex = 2
    /\ grid.ws.lastCol > 33
    /\ \A c \in {0, 1, 2, 34, 35} : SummarizedCell(c) = CodeP
    /\ SummarizedCell(3) = CodeP /\ SummarizedCell(4) = CodeA /\ SummarizedCell(5) = CodeWO
    /\ summary.v.present = 1 /\ summary.v.absent = 1 /\ summary.v.weekoff = Dec(1, 0)

\* a summary column holds a plain decimal number, as a number or as text
HoldsNumber(v) == v.t = "number" \/ (v.t = "text" /\ IsDecimalText(v.s))

\* x is the number the summary column holds
IsValueOf(x, v) == IsFiniteNumber(x) /\ ValueIs(x, String(v))

\* C13: a number in column 37 replaces the per-day weekoff sum and a number
\* in column 41 the per-day OT sum; without the summary cell the per-day sum
\* is returned; present and absent are the per-day counts in every case.
C13_OverrideReplaces ==
    summary.done =>
        /\ HoldsNumber(SummarizedCell(37)) => IsValueOf(summary.v.weekoff, SummarizedCell(37))
        /\ HoldsNumber(SummarizedCell(41)) => IsValueOf(summary.v.otHours, SummarizedCell(41))
        /\ SummarizedCell(37) = Undefined => summary.v.weekoff = Dec(CountOf(Window, "weekoff"), 0)
        /\ SummarizedCell(41) = Undefined => summary.v.otHours = OtSum(Window)
        /\ \A field \in {"present", "absent"} : summary.v[field] = CountOf(Window, field)

\* two weekoff days and "3" in column 37: weekoff is 3
C13_Witness ==
    /\ summary.done
    /\ CountOf(Window, "weekoff") = 2
    /\ SummarizedCell(37) = Text(<<"3">>)
    /\ summary.v.weekoff = Dec(3, 0)

\* a summary column holds nothing, or text that does not start with a number,
\* or the text Infinity
HoldsNoFiniteNumber(v) ==
    \/ v = Undefined
    \/ v.t = "text" /\ v.s \in {<<>>, <<"x">>, <<"I","n","f","i","n","i","t","y">>}

\* C14: a summary column that is empty, holds non-numeric text or holds
\* Infinity leaves the per-day total in place, and weekoff and otHours are
\* finite numbers in every summary.
C14_FiniteOverrides ==
    summary.done =>
        /\ IsFiniteNumber(summary.v.weekoff)
        /\ IsFiniteNumber(summary.v.otHours)
        /\ HoldsNoFiniteNumber(SummarizedCell(37)) =>
               summary.v.weekoff = Dec(CountOf(Window, "weekoff"), 0)
        /\ HoldsNoFiniteNumber(SummarizedCell(41)) => summary.v.otHours = OtSum(Window)

\* C15: present and absent are natural numbers and together at most the
\* number of day columns scanned, which is at most 31.
C15_CountsWithinWindow ==
    summary.done =>
        /\ summary.v.present \in Nat
        /\ summary.v.absent \in Nat
        /\ summary.v.present + summary.v.absent <= Cardinality(Window)
        /\ Cardinality(Window) <= 31

\* a row with a present code in every column of a sheet of 46 columns: 31
C15_Witness ==
    /\ summary.done
    /\ grid.ws.lastCol > 33
    /\ \A c \in 0..grid.ws.lastCol : SummarizedCell(c) = CodeP
    /\ summary.v.present = 31

-----------------------------------------------------------------------------
(* attendance.ts: the handlers of GET /employees and GET /summary, and the *)
(* router that index.ts mounts.  A handler yields the responses it sends,  *)
(* in order.                                                                *)

\* res.status(code).json({ error })
SendError(code, message) == [status |-> code, body |-> [error |-> message]]

\* res.json(body)
SendJson(body) == [status |-> 200, body |-> body]

\* getFilePath of ./files: the path under which storage keeps the file id
getFilePath(file) == [path |-> file.s]

\* lines 110-113: fs.readFileSync and XLSX.read, which give a workbook or throw
readWorkbook(filePath, st) ==
    IF st.t = "absent" \/ filePath.path # st.id THEN [t |-> "throw", code |-> "ENOENT"]
    ELSE IF st.t = "unreadable" THEN [t |-> "throw", code |-> "other"]
    ELSE [t |-> "workbook", wb |-> st.wb]

\* faulty variant: every failure of the read is answered alike
readFailure_Always400(e) == <<SendError(400, "Unable to read Excel file")>>

\* lines 113-116: the catch clause
readFailure(e) ==
    IF e.code = "ENOENT" THEN <<SendError(404, "File not found")>>
    ELSE <<SendError(400, "Unable to read Excel file")>>

\* lines 113-121: what follows the read of the workbook
employeesAfterRead(rq, rd) ==
    IF rd.t = "throw" THEN readFailure(rd)
    ELSE LET ws == findPresentSheet(rd.wb)
         IN  IF ws = Null THEN <<SendError(400, "Sheet 'present' not found")>>
             ELSE <<SendJson([file |-> rq.file.s,
                              employees |-> readEmployeesFromSheet(ws.rows)])>>

\* lines 105-122
getEmployees(rq, st) ==
    IF Falsy(rq.file) THEN <<SendError(400, "Missing file param")>>
    ELSE employeesAfterRead(rq, readWorkbook(getFilePath(rq.file), st))

\* faulty variant: a request without a number is turned away
hasSelector_NumberOnly(rq) == ~Falsy(rq.number)

\* line 127, negated: a number or a name is given
hasSelector(rq) == ~(Falsy(rq.number) /\ Falsy(rq.name))

\* faulty variant: the first row of the sheet is summarized
summaryResponse_FirstRow(file, ws, f) ==
    SendJson([file |-> file, employee |-> f.foundEmp, summary |-> summarizeRow(ws, 1)])

\* lines 168-170
summaryResponse(file, ws, f) ==
    SendJson([file |-> file, employee |-> f.foundEmp, summary |-> summarizeRow(ws, f.foundRow)])

\* a query parameter given more than once: req.query holds an array of texts
List(items) == [t |-> "array", items |-> items]

\* an exception that leaves the handler
Throw(e) == [thrown |-> e]

\* lines 142-143: normalizeForCompare calls s.replace, which an array has not
normalizeThrows(q) == q.t = "array"

\* the TypeError of lines 142-143 is raised outside any try
queryFailure(rq) == <<Throw("TypeError")>>

\* lines 133-170: what follows the read of the workbook
summaryAfterRead(rq, rd) ==
    IF rd.t = "throw" THEN readFailure(rd)
    ELSE LET ws == findPresentSheet(rd.wb)
         IN  IF ws = Null THEN <<SendError(400, "Sheet 'present' not found")>>
             ELSE IF normalizeThrows(rq.number) \/ normalizeThrows(rq.name)
             THEN queryFailure(rq)
             ELSE LET f == scanRows(ws.rows, rq.number, rq.name)
                  IN  IF f.foundRow = -1 \/ f.foundEmp = Null
                      THEN <<SendError(404, "Employee not found")>>
                      ELSE <<summaryResponse(rq.file.s, ws, f)>>

\* lines 124-171
getSummary(rq, st) ==
    IF Falsy(rq.file) THEN <<SendError(400, "Missing file param")>>
    ELSE IF ~hasSelector(rq) THEN <<SendError(400, "Provide number or name")>>
    ELSE summaryAfterRead(rq, readWorkbook(getFilePath(rq.file), st))

\* a request no route of the application matches
NoRoute(rq) == <<[status |-> 404, body |-> [cannot |-> "GET", path |-> rq.path]]>>

\* the routes of attendanceRouter under /api/attendance
attendanceRouter(rq, st) ==
    IF rq.path = "/employees" THEN getEmployees(rq, st)
    ELSE IF rq.path = "/summary" THEN getSummary(rq, st)
    ELSE NoRoute(rq)

-----------------------------------------------------------------------------
(* State machine of the attendance API: storage holds nothing, an          *)
(* unreadable file or a workbook under one file id, and one GET request is *)
(* answered.                                                                *)

StoredFile == <<"x">>

\* the row of the end-to-end example: 007, John Doe, P, A, WO
ExampleRow == [b |-> N007, c |-> JohnDoe, cells |-> DayCells(<<CodeP, CodeA, CodeWO>>)]

\* a row with overtime and with a number in each column after the day window
NumbersRow ==
    [b |-> Text(<<"a","1">>), c |-> Text(<<"J","a","n","e">>),
     cells |-> DayCells(<<CodePOT, CodeWO>>) @@ [c \in (LastDayCol + 1)..OtCol |-> Num(2, 0)]]

\* the header row
HeaderRow == [b |-> Text(<<"N","o",".">>), c |-> Text(<<"N","a","m","e">>),
              cells |-> DayCells(<<Num(1, 0), Num(2, 0), Num(3, 0)>>)]

\* a second row of the employee of the example, written differently
RepeatedRow == [b |-> Text(<<" ","0","0","7"," ">>),
                c |-> Text(<<"j","o","h","n"," "," ","d","o","e",".">>),
                cells |-> DayCells(<<CodeA>>)]

ServedRows == {ExampleRow, NumbersRow, HeaderRow, RepeatedRow}

\* the last column of the used range of the rows
LastColOf(rows) ==
    LET used == UNION {DOMAIN rows[r].cells : r \in 1..Len(rows)} \cup {0}
    IN  IF rows = <<>> THEN 0
        ELSE IF used = {0} THEN 2
        ELSE CHOOSE c \in used : \A d \in used : d <= c

\* worksheets of at most n rows
WorksheetsUpTo(n) ==
    {[lastCol |-> LastColOf(rows), rows |-> rows] :
        rows \in UNION {[1..k -> ServedRows] : k \in 0..n}}

\* a sheet that holds no attendance
OtherSheet == [lastCol |-> OtCol + 4, rows |-> <<OtherRow>>]

PresentJan == <<"P","R","E","S","E","N","T"," ","J","A","N">>
Presant == <<"P","r","e","s","a","n","t">>
Attendance == <<"A","t","t","e","n","d","a","n","c","e">>
Sheet1 == <<"S","h","e","e","t","1">>

\* workbooks of one or two sheets around the worksheet ws
WorkbooksOf(ws) ==
    { [SheetNames |-> <<PresentJan>>, Sheets |-> [n \in {PresentJan} |-> ws]],
      [SheetNames |-> <<Attendance>>, Sheets |-> [n \in {Attendance} |-> ws]],
      [SheetNames |-> <<Sheet1, Presant>>,
       Sheets |-> [n \in {Sheet1, Presant} |-> IF n = Presant THEN ws ELSE OtherSheet]] }

Stores ==
    { [t |-> "absent"], [t |-> "unreadable", id |-> StoredFile] }
    \cup {[t |-> "workbook", id |-> StoredFile, wb |-> w] :
             w \in UNION {WorkbooksOf(ws) : ws \in WorksheetsUpTo(MaxRows)}}

Requests ==
    [path : {"/employees", "/summary", "/daily"},
     file : {Undefined, Text(<<>>), Text(StoredFile), Text(<<"y">>)},
     number : {Undefined, N007, Text(<<"a","1">>), Text(<<"9">>)},
     name : {Undefined, Text(<<>>), Text(<<"j","o","h","n"," ","d","o","e">>)}]

InitServer ==
    /\ store \in Stores
    /\ req \in Requests
    /\ resp = NoResult
    /\ ClassifierIdle
    /\ LocatorIdle
    /\ DirectoryIdle
    /\ SummaryIdle
    /\ OthersIdle

\* the server answers the request
Get ==
    /\ ~resp.done
    /\ resp' = Result(attendanceRouter(req, store))
    /\ UNCHANGED <<raw, cls, wb, located, sheet, query, employees, found, grid, summary, store, req, otherVars>>

NextServer == Get

SpecServer == InitServer /\ [][NextServer]_vars

-----------------------------------------------------------------------------
(* The answers of the attendance API, stated over storage and the request. *)

Answered(p) == resp.done /\ req.path = p

\* the response, when exactly one was sent
Answer == resp.v[1]

FileGiven == ~Falsy(req.file)
SelectorGiven == ~Falsy(req.number) \/ ~Falsy(req.name)
FileOnStorage == FileGiven /\ store.t # "absent" /\ store.id = req.file.s
WorkbookRead == FileOnStorage /\ store.t = "workbook"

\* the sheets whose lower-cased name contains present or presant, in order
AttendanceSheets ==
    SelectSeq(store.wb.SheetNames,
              LAMBDA n : \E k \in 0..(Len(n) - 7) :
                  SubSeq(toLowerCase(n), k + 1, k + 7) \in
                      {<<"p","r","e","s","e","n","t">>, <<"p","r","e","s","a","n","t">>})

SheetFound == WorkbookRead /\ AttendanceSheets # <<>>
TheSheet == store.wb.Sheets[Head(AttendanceSheets)]

\* the rows of the attendance sheet that are not ignored and that the number
\* or the name of the request selects
SelectedRows ==
    {r \in 1..Len(TheSheet.rows) :
        LET b == trim(String(TheSheet.rows[r].b))
            c == trim(String(TheSheet.rows[r].c))
        IN  /\ b \notin {<<>>, <<".">>} /\ toUpperCase(b) \notin {<<"N","O">>, <<"N","O",".">>}
            /\ c \notin {<<>>, <<".">>} /\ toUpperCase(c) \notin {<<"N","O">>, <<"N","O",".">>}
            /\ \/ QueryForm(req.number) # <<>> /\ NormalForm(b) = QueryForm(req.number)
               \/ QueryForm(req.name) # <<>> /\ NormalForm(c) = QueryForm(req.name)}

MatchedRow == FirstOf(SelectedRows)
EmployeeFound == SheetFound /\ SelectorGiven /\ MatchedRow # -1

OneResponse(code) == Len(resp.v) = 1 /\ Answer.status = code
OneError(code) == OneResponse(code) /\ DOMAIN Answer.body = {"error"}

ExampleWorkbook ==
    [SheetNames |-> <<PresentJan>>,
     Sheets |-> [n \in {PresentJan} |-> [lastCol |-> 5, rows |-> <<ExampleRow>>]]]

ExampleRequest ==
    [path |-> "/summary", file |-> Text(StoredFile), number |-> N007, name |-> Undefined]

ExampleState == store = [t |-> "workbook", id |-> StoredFile, wb |-> ExampleWorkbook]
                /\ req = ExampleRequest

\* C16: a 200 answer of /summary carries the trimmed number and name of the
\* matched row and the summary of that same row; the sheet "PRESENT JAN"
\* with the row 007, John Doe, P, A, WO and number=007 gives
\* { number 007, name John Doe } and { present 1, absent 1, weekoff 1, otHours 0 }.
C16_EndToEndSummary ==
    /\ Answered("/summary") /\ EmployeeFound =>
           /\ OneResponse(200)
           /\ Answer.body.employee = [number |-> trim(String(TheSheet.rows[MatchedRow].b)),
                                      name |-> trim(String(TheSheet.rows[MatchedRow].c))]
           /\ Answer.body.summary = summarizeRow(TheSheet, MatchedRow)
    /\ resp.done /\ ExampleState =>
           resp.v = <<[status |-> 200,
                       body |-> [file |-> StoredFile,
                                 employee |-> [number |-> <<"0","0","7">>,
                                               name |-> <<"J","o","h","n"," ","D","o","e">>],
                                 summary |-> [present |-> 1, absent |-> 1,
                                              weekoff |-> Dec(1, 0), otHours |-> Zero]]]>>

C16_Witness == resp.done /\ ExampleState /\ Answer.body.summary.present = 1

DayWindow == {c \in 3..33 : c <= TheSheet.lastCol}

\* one entry for each day column of the matched row
ExpectedDays ==
    [i \in 1..Cardinality(DayWindow) |->
        LET code == trim(String(CellAt(TheSheet, MatchedRow, i + 2)))
        IN  [day |-> i, code |-> code, ot |-> otOf(toUpperCase(code))]]

\* C19: /daily answers a request that selects an employee with file,
\* employee and days, one entry for each day column of the summary window in
\* column order, with day = column - 2, the normalized cell as code and the
\* value of the OT pattern as ot.
C19_DailyAnswers ==
    Answered("/daily") /\ EmployeeFound =>
        /\ OneResponse(200)
        /\ DOMAIN Answer.body = {"file", "employee", "days"}
        /\ Answer.body.days = ExpectedDays

\* each column after the day window holds a number in the matched row
SummaryColumnsHoldNumbers ==
    /\ TheSheet.lastCol > 33
    /\ \A c \in 34..TheSheet.lastCol : CellAt(TheSheet, MatchedRow, c).t = "number"

\* C20: the summary of an employee whose columns after the day window all
\* hold numbers carries atd, minus and kitchen.
C20_DerivedFields ==
    Answered("/summary") /\ EmployeeFound /\ SummaryColumnsHoldNumbers =>
        /\ OneResponse(200)
        /\ {"atd", "minus", "kitchen"} \subseteq DOMAIN Answer.body.summary

-----------------------------------------------------------------------------
(* The attendance API under requests that repeat a query parameter, as in  *)
(* /summary?file=x&number=007&number=a1, for which req.query holds an array. *)

RepeatedNumber == List(<<<<"0","0","7">>, <<"a","1">>>>)
RepeatedName == List(<<<<"j","o","h","n">>, <<"d","o","e">>>>)

RequestsWithRepeats ==
    [path : {"/employees", "/summary"},
     file : {Text(StoredFile), Text(<<"y">>)},
     number : {Undefined, N007, RepeatedNumber},
     name : {Undefined, Text(<<"j","o","h","n"," ","d","o","e">>), RepeatedName}]

InitRepeats ==
    /\ store \in Stores
    /\ req \in RequestsWithRepeats
    /\ resp = NoResult
    /\ ClassifierIdle
    /\ LocatorIdle
    /\ DirectoryIdle
    /\ SummaryIdle
    /\ OthersIdle

SpecRepeats == InitRepeats /\ [][NextServer]_vars

\* C21: once the parameters of /employees or /summary have passed
\* validation, whatever fails is answered by the handler with a 400 or 500
\* JSON error, and no exception leaves the handler.
C21_FailuresCaught ==
    /\ resp.done
    /\ req.path \in {"/employees", "/summary"}
    /\ ~Falsy(req.file)
    /\ req.path = "/summary" => hasSelector(req)
    =>
        /\ Len(resp.v) = 1
        /\ "thrown" \notin DOMAIN resp.v[1]
        /\ resp.v[1].status # 200 =>
               /\ resp.v[1].status \in {400, 404, 500}
               /\ DOMAIN resp.v[1].body = {"error"}

-----------------------------------------------------------------------------
(* State machine of concurrent attendance requests.  Each request holds    *)
(* what its handler keeps in local variables: the request, the result of   *)
(* the read (let wb) and the responses sent.  A handler is taken in two    *)
(* steps, the read of the file and everything after it, and the steps of   *)
(* different requests interleave in every order.                           *)

attendanceVars == <<raw, cls, wb, located, sheet, query, employees, found,
                    grid, summary, store, req, resp>>

AttendanceIdle == ClassifierIdle /\ LocatorIdle /\ DirectoryIdle /\ SummaryIdle /\ ServerIdle

\* requests handled at the same time
NumClients == 2

ConcurrentStores ==
    { [t |-> "absent"],
      [t |-> "unreadable", id |-> StoredFile],
      [t |-> "workbook", id |-> StoredFile, wb |-> ExampleWorkbook],
      [t |-> "workbook", id |-> StoredFile,
       wb |-> [SheetNames |-> <<Sheet1, Presant>>,
               Sheets |-> [n \in {Sheet1, Presant} |->
                              IF n = Sheet1 THEN OtherSheet
                              ELSE [lastCol |-> OtCol,
                                    rows |-> <<HeaderRow, NumbersRow, RepeatedRow>>]]]] }

ConcurrentRequests ==
    [path : {"/employees", "/summary"},
     file : {Undefined, Text(StoredFile), Text(<<"y">>)},
     number : {Undefined, N007, Text(<<"a","1">>)},
     name : {Undefined}]

\* whether the parameters pass the checks before the read (lines 107, 126-127)
passesValidation(rq) ==
    ~Falsy(rq.file) /\ (rq.path = "/summary" => hasSelector(rq))

\* faulty variant: the workbook is kept in a variable of the module, which a
\* request that has read and not yet answered has overwritten
readOf_Shared(fl, i) ==
    IF \E j \in DOMAIN fl : j # i /\ fl[j].pc = "read"
    THEN fl[CHOOSE j \in DOMAIN fl : j # i /\ fl[j].pc = "read"].rd
    ELSE fl[i].rd

\* let wb: the result of the read of request i
readOf(fl, i) == fl[i].rd

InitConcurrent ==
    /\ store \in ConcurrentStores
    /\ inflight \in [1..NumClients ->
                        {[req |-> rq, pc |-> "received", rd |-> Null, sent |-> <<>>] :
                            rq \in ConcurrentRequests}]
    /\ raw = Undefined /\ cls = NoResult
    /\ LocatorIdle
    /\ DirectoryIdle
    /\ SummaryIdle
    /\ req = [path |-> "none"] /\ resp = NoResult
    /\ RelayIdle
    /\ MediaIdle
    /\ PageIdle

\* what the checks before the read answer to a request they turn away
\* (lines 107, 126-127)
rejection(rq) ==
    IF Falsy(rq.file) THEN <<SendError(400, "Missing file param")>>
    ELSE <<SendError(400, "Provide number or name")>>

\* request i is turned away by the checks of its parameters
Reject(i) ==
    /\ inflight[i].pc = "received"
    /\ ~passesValidation(inflight[i].req)
    /\ inflight' = [inflight EXCEPT ![i].pc = "sent",
                                    ![i].sent = rejection(inflight[i].req)]
    /\ UNCHANGED <<attendanceVars, relayVars, mediaVars, pageVars>>

\* request i reads the file and parses the workbook
ReadFile(i) ==
    /\ inflight[i].pc = "received"
    /\ passesValidation(inflight[i].req)
    /\ inflight' = [inflight EXCEPT ![i].pc = "read",
                                    ![i].rd = readWorkbook(getFilePath(inflight[i].req.file), store)]
    /\ UNCHANGED <<attendanceVars, relayVars, mediaVars, pageVars>>

\* request i goes on from the workbook it read and answers
AnswerFromRead(i) ==
    /\ inflight[i].pc = "read"
    /\ inflight' = [inflight EXCEPT
           ![i].pc = "sent",
           ![i].sent = IF inflight[i].req.path = "/employees"
                       THEN employeesAfterRead(inflight[i].req, readOf(inflight, i))
                       ELSE summaryAfterRead(inflight[i].req, readOf(inflight, i))]
    /\ UNCHANGED <<attendanceVars, relayVars, mediaVars, pageVars>>

NextConcurrent == \E i \in 1..NumClients : Reject(i) \/ ReadFile(i) \/ AnswerFromRead(i)

SpecConcurrent == InitConcurrent /\ [][NextConcurrent]_vars

\* C22: whatever the interleaving, the response of each request is the one
\* the request gets when it is handled alone on the same storage.
C22_RequestsIndependent ==
    \A i \in DOMAIN inflight :
        inflight[i].pc = "sent" => inflight[i].sent = attendanceRouter(inflight[i].req, store)

\* a summary is answered while a request for a file that storage does not
\* hold has read and not yet answered
C22_Witness ==
    /\ inflight # <<>>
    /\ inflight[1].pc = "sent"
    /\ inflight[1].req.path = "/summary"
    /\ inflight[1].sent[1].status = 200
    /\ inflight[2].pc = "read"
    /\ inflight[2].rd.t = "throw"

-----------------------------------------------------------------------------
(* State machine of the selection in the client (Index.tsx): the page      *)
(* loads the directory of a sheet, the user selects one of its entries and *)
(* the page asks for the summary of that entry.                            *)

InitSelect ==
    /\ sheet \in SheetsUpTo(MaxRows)
    /\ query = [number |-> Undefined, name |-> Undefined]
    /\ employees = NoResult
    /\ found = NoResult
    /\ ClassifierIdle
    /\ LocatorIdle
    /\ SummaryIdle
    /\ ServerIdle
    /\ OthersIdle

\* employeesQuery: GET /employees
LoadEmployees ==
    /\ ~employees.done
    /\ employees' = Result(readEmployeesFromSheet(sheet))
    /\ UNCHANGED <<raw, cls, wb, located, sheet, query, found, grid, summary, store, req, resp,
                   otherVars>>

\* the parameters of summaryQuery for the selected entry e (lines 78-80):
\* a parameter is set when its text is not empty
summaryParams(e, withName) ==
    [number |-> IF e.number # <<>> THEN Text(e.number) ELSE Undefined,
     name |-> IF withName /\ e.name # <<>> THEN Text(e.name) ELSE Undefined]

\* onSelect of an entry (lines 154-160) and the summary request that follows
\* (lines 74-85); the request with the number alone is the one the claim adds
SelectEmployee ==
    /\ employees.done
    /\ ~found.done
    /\ \E i \in 1..Len(employees.v), withName \in BOOLEAN :
        /\ query' = summaryParams(employees.v[i], withName)
        /\ found' = Result(scanRows(sheet, query'.number, query'.name))
        /\ UNCHANGED <<raw, cls, wb, located, sheet, employees, grid, summary, store, req, resp,
                       otherVars>>

NextSelect == LoadEmployees \/ SelectEmployee

SpecSelect == InitSelect /\ [][NextSelect]_vars

\* C28: the summary request for a selected entry of the directory resolves
\* to a row whose trimmed number cell is the number of the entry.
C28_SelectionResolves ==
    employees.done /\ found.done =>
        /\ found.v.foundRow # -1
        /\ trim(String(sheet[found.v.foundRow].b)) = query.number.s

(***************************************************************************)
(* The WhatsApp relay: src/server/routes/whatsapp.ts.                      *)
(*                                                                         *)
(* A JSON object is a record that holds only the keys that are present;    *)
(* the texts of a configuration are strings, "" being the empty text.  The *)
(* x-admin-token header, ADMIN_TOKEN and the recipient are sequences of    *)
(* characters, since the code trims or filters them.  A URL is the record  *)
(* of its scheme, host and path; a text that is no URL has no scheme.      *)
(***************************************************************************)

\* o[k] || "" : an absent key is undefined, and undefined and "" are both falsy
Field(o, k) == IF k \in DOMAIN o THEN o[k] ELSE ""

\* a || b on texts
Or(a, b) == IF a # "" THEN a ELSE b

Url(scheme, host, path) == [scheme |-> scheme, host |-> host, path |-> path]
\* the absent URL: undefined, or the empty text
NoUrl == Url("", "", "")
\* /^https?:\/\//i, and u.protocol === "http:" || u.protocol === "https:"
isHttp(u) == u.scheme \in {"http", "https"}

\* o[k] for a key that holds a URL
UrlField(o, k) == IF k \in DOMAIN o THEN o[k] ELSE NoUrl

\* the object { endpoint, appkey, authkey, templateId, imageHost } as
\* JSON.stringify writes it: a key whose value is undefined is left out
StoredConfig(endpoint, appkey, authkey, templateId, imageHost) ==
    IF templateId # "" /\ imageHost # NoUrl
    THEN [endpoint |-> endpoint, appkey |-> appkey, authkey |-> authkey,
          templateId |-> templateId, imageHost |-> imageHost]
    ELSE IF templateId # ""
    THEN [endpoint |-> endpoint, appkey |-> appkey, authkey |-> authkey,
          templateId |-> templateId]
    ELSE IF imageHost # NoUrl
    THEN [endpoint |-> endpoint, appkey |-> appkey, authkey |-> authkey,
          imageHost |-> imageHost]
    ELSE [endpoint |-> endpoint, appkey |-> appkey, authkey |-> authkey]

\* the variant that forgets the template
readStoredConfig_NoTemplate(file) ==
    IF file = Null THEN Null
    ELSE StoredConfig(Field(file, "endpoint"), Field(file, "appkey"),
                      Field(file, "authkey"), "", UrlField(file, "imageHost"))

\* readStoredConfig(): null when there is no file, else the parsed object
\* with its three texts and its two optional ones
readStoredConfig(file) ==
    IF file = Null THEN Null
    ELSE StoredConfig(Field(file, "endpoint"), Field(file, "appkey"),
                      Field(file, "authkey"), Field(file, "templateId"),
                      UrlField(file, "imageHost"))

\* writeStoredConfig(cfg): the file holds JSON.stringify(cfg)
writeStoredConfig(cfg) == cfg

\* the variant that lets everyone in
requireIfSetAuthorized_Open(rq, token) == TRUE

\* requireIfSetAuthorized(req): everyone when ADMIN_TOKEN is not set, else
\* the callers whose trimmed x-admin-token is the token
requireIfSetAuthorized(rq, token) ==
    IF token = <<>> THEN TRUE
    ELSE trim(rq.header) = token

\* what GET /config answers when nothing is stored
EmptyConfig ==
    [endpoint |-> "", appkey |-> "", authkey |-> "", templateId |-> "",
     imageHost |-> NoUrl]

\* GET /config
getConfig(rq, file, token) ==
    IF ~requireIfSetAuthorized(rq, token) THEN SendError(401, "Unauthorized")
    ELSE LET cfg == readStoredConfig(file)
         IN SendJson(IF cfg # Null THEN cfg ELSE EmptyConfig)

\* PUT /config: the answer and what the file holds afterwards; written is
\* whether the file system takes the write (a refused write leaves the file
\* as it was and is answered with 500)
putConfig(rq, file, token, written) ==
    IF ~requireIfSetAuthorized(rq, token)
    THEN [reply |-> SendError(401, "Unauthorized"), file |-> file]
    ELSE LET b == rq.body
             cfg == StoredConfig(Field(b, "endpoint"), Field(b, "appkey"),
                                 Field(b, "authkey"), Field(b, "templateId"),
                                 UrlField(b, "imageHost"))
         IN IF cfg.endpoint = "" \/ cfg.appkey = "" \/ cfg.authkey = ""
            THEN [reply |-> SendError(400, "endpoint, appkey, authkey are required"),
                  file |-> file]
            ELSE IF written
            THEN [reply |-> SendJson([ok |-> TRUE]), file |-> writeStoredConfig(cfg)]
            ELSE [reply |-> SendError(500, "Failed to save config"), file |-> file]

\* formatTo91(to): "91" and the last ten digits of to, "" when it has none
formatTo91(to) ==
    LET digits == SelectSeq(to, LAMBDA c : IsDigit(c))
    IN IF digits = <<>> THEN <<>>
       ELSE <<"9", "1">> \o (IF Len(digits) > 10
                             THEN SubSeq(digits, Len(digits) - 9, Len(digits))
                             ELSE digits)

\* lines 248-261 of POST /send: the request's endpoint, appkey, authkey and
\* template_id, the absent ones taken from the stored configuration cfg when
\* one of the first three is absent and there is a stored configuration
filled(b, cfg) ==
    IF (Field(b, "endpoint") # "" /\ Field(b, "appkey") # "" /\ Field(b, "authkey") # "")
       \/ cfg = Null
    THEN [endpoint |-> Field(b, "endpoint"), appkey |-> Field(b, "appkey"),
          authkey |-> Field(b, "authkey"), template_id |-> Field(b, "template_id")]
    ELSE [endpoint |-> Or(Field(b, "endpoint"), cfg.endpoint),
          appkey |-> Or(Field(b, "appkey"), cfg.appkey),
          authkey |-> Or(Field(b, "authkey"), cfg.authkey),
          template_id |-> IF Field(b, "template_id") = "" /\ Field(cfg, "templateId") # ""
                          THEN cfg.templateId
                          ELSE Field(b, "template_id")]

\* the variant that lets a request without a message through
missing_MessageOptional(f, b) ==
    f.endpoint = "" \/ f.appkey = "" \/ f.authkey = "" \/ b.to = <<>>

\* line 263: !endpoint || !appkey || !authkey || !to || !message
missing(f, b) ==
    f.endpoint = "" \/ f.appkey = "" \/ f.authkey = "" \/ b.to = <<>> \/ b.message = ""

\* getPublicBase(req): MEDIA_PUBLIC_BASE, or the origin the request came to
PublicBase == Url("https", "app.example", "")

\* a provider call, postFormUrlEncoded(target, payload) or
\* postJson(target, payload), and what came of it once it has
Call(encoding, target, payload) ==
    [encoding |-> encoding, target |-> target, payload |-> payload, result |-> NoResult]

\* what a provider call returns: { ok: resp.ok, status: resp.status, body }
Returned(status, body) == [ok |-> status \in 200..299, status |-> status, body |-> body]
\* fetch rejects (no connection, no such host): the call throws
Thrown == Throw("TypeError")

\* lines 272-291: an image file is written when the request has no http(s)
\* fileUrl and has an imageDataUrl
savesImage(b) == ~isHttp(UrlField(b, "fileUrl")) /\ Field(b, "imageDataUrl") # ""

\* POST /send up to its first await (lines 247-328): the answer if it has
\* one already, the provider call it makes otherwise, and the number of image
\* files written; path is the /i/<id>.png path of the random id drawn by
\* saveBufferToShort.  upload.none() admits no uploaded file, so req.file is
\* never set and an image comes from imageDataUrl alone.
postSend(rq, file, path) ==
    LET b == rq.body
        f == filled(b, readStoredConfig(file))
    IN IF missing(f, b)
       THEN [reply |-> Result(SendError(400, "Missing endpoint/appkey/authkey/to/message")),
             calls |-> <<>>, wrote |-> 0]
       ELSE LET reqFileUrl == UrlField(b, "fileUrl")
                saves == savesImage(b)
                tempUrl == IF isHttp(reqFileUrl) THEN reqFileUrl
                           ELSE IF saves THEN Url(PublicBase.scheme, PublicBase.host, path)
                           ELSE NoUrl
                stored2 == readStoredConfig(file)
                host == IF stored2 # Null THEN UrlField(stored2, "imageHost") ELSE NoUrl
                fileUrl == IF isHttp(host) /\ tempUrl # NoUrl
                           THEN Url(host.scheme, host.host, tempUrl.path)
                           ELSE tempUrl
                payload == [appkey |-> f.appkey, authkey |-> f.authkey,
                            to |-> formatTo91(b.to), message |-> b.message,
                            template_id |-> f.template_id, file |-> fileUrl]
            IN [reply |-> NoResult, calls |-> <<Call("form", f.endpoint, payload)>>,
                wrote |-> IF saves THEN 1 ELSE 0]

\* the variant that posts JSON whatever the first response was
needsJson_Always(result) == TRUE

\* line 330: the JSON encoding is tried when the first response is not ok
needsJson(result) == ~result.ok

\* line 339: result.status || 502
remoteStatus(result) == IF result.status # 0 THEN result.status ELSE 502

\* POST /send from the return of a provider call (lines 328-351): answer is
\* what the last of calls came to; the handler answers, or posts JSON to the
\* same endpoint after the form post
afterCall(calls, answer) ==
    LET n == Len(calls)
        done == [calls EXCEPT ![n].result = Result(answer)]
    IN IF answer = Thrown
       THEN [reply |-> Result(SendError(500, "Failed to send WhatsApp")), calls |-> done]
       ELSE IF n = 1 /\ needsJson(answer)
       THEN [reply |-> NoResult,
             calls |-> done \o <<Call("json", calls[1].target, calls[1].payload)>>]
       ELSE IF answer.ok
       THEN [reply |-> Result(SendJson([ok |-> TRUE, response |-> answer.body])),
             calls |-> done]
       ELSE [reply |-> Result([status |-> remoteStatus(answer),
                               body |-> [error |-> "Remote API error",
                                         response |-> answer.body]]),
             calls |-> done]

(***************************************************************************)
(* SpecRelay: requests to /api/whatsapp/config and /api/whatsapp/send, one *)
(* after the other, against the configuration file.                        *)
(***************************************************************************)

Secret == <<"s", "3">>
AdminTokens == {<<>>, Secret}
\* x-admin-token: absent, the token, another text (the HTTP parser has
\* stripped the blanks around a header's value before the handler sees it)
AdminHeaders == {<<>>, Secret, <<"n", "o">>}

StoredEndpoint == "https://provider.example/send"
CallerEndpoint == "https://caller.example/collect"
ImageHost == Url("https", "img.example", "")

\* the configurations a client puts: complete ones, with and without the
\* template and the image host, and ones that lack one of the three texts
ConfigBodies ==
    {StoredConfig(StoredEndpoint, a, "auth-1", "", NoUrl) : a \in {"app-1", "app-2"}}
    \cup {StoredConfig(StoredEndpoint, a, "auth-1", "tpl-1", ImageHost) : a \in {"app-1", "app-2"}}
    \cup {StoredConfig("", "app-2", "auth-1", "", NoUrl),
          StoredConfig(StoredEndpoint, "", "auth-1", "tpl-1", NoUrl),
          StoredConfig(StoredEndpoint, "app-2", "", "", ImageHost)}

\* what the configuration file holds at the start: nothing, or what an
\* earlier PUT /config wrote, one of them with an image host that is no URL
InitialStores ==
    {Null, StoredConfig(StoredEndpoint, "app-1", "auth-1", "", Url("", "img", ""))}
    \cup {c \in ConfigBodies : c.endpoint # "" /\ c.appkey = "app-1" /\ c.authkey # ""}

Recipient == <<"+", "9", "1", " ", "9", "8", "7", "6", "5", "4", "3", "2", "1", "0">>

\* the template and the image a request to /send comes with: none, a URL, a
\* data URL, and a data URL next to a fileUrl that is no http(s) URL
SendExtras ==
    {[template_id |-> "", fileUrl |-> NoUrl, imageDataUrl |-> ""],
     [template_id |-> "tpl-c", fileUrl |-> Url("https", "files.example", "/a.png"),
      imageDataUrl |-> ""],
     [template_id |-> "", fileUrl |-> NoUrl, imageDataUrl |-> "data:image/png;base64,AAAA"],
     [template_id |-> "tpl-c", fileUrl |-> Url("ftp", "files.example", "/a.png"),
      imageDataUrl |-> "data:image/png;base64,AAAA"]}

\* the rest of a request to /send: a recipient and a message with each of
\* the extras, and a data URL with the recipient or the message missing
SendRests ==
    {[to |-> Recipient, message |-> "hello", template_id |-> x.template_id,
      fileUrl |-> x.fileUrl, imageDataUrl |-> x.imageDataUrl] : x \in SendExtras}
    \cup {[to |-> w.to, message |-> w.message, template_id |-> "", fileUrl |-> NoUrl,
           imageDataUrl |-> "data:image/png;base64,AAAA"] :
            w \in {[to |-> <<>>, message |-> "hello"], [to |-> Recipient, message |-> ""]}}

SendBodies ==
    {[endpoint |-> e, appkey |-> a, authkey |-> k, to |-> r.to, message |-> r.message,
      template_id |-> r.template_id, fileUrl |-> r.fileUrl,
      imageDataUrl |-> r.imageDataUrl] :
        e \in {"", CallerEndpoint}, a \in {"", "app-c"}, k \in {"", "auth-c"},
        r \in SendRests}

\* what the provider does with a call
ProviderAnswers ==
    {Returned(200, "queued"), Returned(500, "busy"), Returned(0, "none"), Thrown}

ImagePaths == {"/i/Ab3dE6_h.png", "/i/Zz9yX8wV.png"}

\* a request to /send waits for the provider
Sending == call.route = "POST /send" /\ ~reply.done

InitRelay ==
    /\ stored \in InitialStores
    /\ adminToken \in AdminTokens
    /\ call = [route |-> "none"]
    /\ reply = NoResult
    /\ outbox = <<>>
    /\ images = 0
    /\ lastPut = Null
    /\ AttendanceIdle
    /\ ConcurrentIdle
    /\ MediaIdle
    /\ PageIdle

\* GET /api/whatsapp/config
GetConfig ==
    /\ ~Sending
    /\ \E h \in AdminHeaders :
        LET rq == [route |-> "GET /config", header |-> h]
        IN /\ call' = rq
           /\ reply' = Result(getConfig(rq, stored, adminToken))
           /\ outbox' = <<>>
           /\ images' = 0
           /\ UNCHANGED <<stored, adminToken, lastPut>>
           /\ UNCHANGED <<attendanceVars, concurrentVars, mediaVars, pageVars>>

\* PUT /api/whatsapp/config
PutConfig ==
    /\ ~Sending
    /\ \E h \in AdminHeaders, b \in ConfigBodies, written \in BOOLEAN :
        LET rq == [route |-> "PUT /config", header |-> h, body |-> b]
            out == putConfig(rq, stored, adminToken, written)
        IN /\ call' = rq
           /\ reply' = Result(out.reply)
           /\ stored' = out.file
           /\ outbox' = <<>>
           /\ images' = 0
           /\ lastPut' = IF out.reply = SendJson([ok |-> TRUE]) THEN b ELSE lastPut
           /\ UNCHANGED adminToken
           /\ UNCHANGED <<attendanceVars, concurrentVars, mediaVars, pageVars>>

\* POST /api/whatsapp/send, up to its answer or to its first provider call.
\* What the handler reads of the configuration it reads here, and the
\* configuration handlers read nothing of a request to /send, so the
\* requests are taken one after the other.
Send ==
    /\ ~Sending
    /\ \E b \in SendBodies :
       \E p \in IF savesImage(b) THEN ImagePaths ELSE {""} :
        LET rq == [route |-> "POST /send", body |-> b]
            out == postSend(rq, stored, p)
        IN /\ call' = rq
           /\ reply' = out.reply
           /\ outbox' = out.calls
           /\ images' = out.wrote
           /\ UNCHANGED <<stored, adminToken, lastPut>>
           /\ UNCHANGED <<attendanceVars, concurrentVars, mediaVars, pageVars>>

\* the provider call that is under way returns or throws, and POST /send
\* goes on from there
ProviderResponds ==
    /\ Sending
    /\ \E a \in ProviderAnswers :
        LET out == afterCall(outbox, a)
        IN /\ reply' = out.reply
           /\ outbox' = out.calls
           /\ UNCHANGED <<stored, adminToken, call, images, lastPut>>
           /\ UNCHANGED <<attendanceVars, concurrentVars, mediaVars, pageVars>>

NextRelay == GetConfig \/ PutConfig \/ Send \/ ProviderResponds

SpecRelay == InitRelay /\ [][NextRelay]_vars

\* ---- claims about the relay ----

\* the request handled last went to POST /send and has its answer
SendAnswered == call.route = "POST /send" /\ reply.done

\* the i-th provider call came back, with an ok response
CameBack(i) == outbox[i].result.done /\ outbox[i].result.v # Thrown
CameBackOk(i) == CameBack(i) /\ outbox[i].result.v.ok

\* the encodings are tried in their order, the second only after a first
\* response that was not ok, and no call follows an ok response
InFallbackOrder ==
    /\ Len(outbox) <= 2
    /\ Len(outbox) >= 1 => outbox[1].encoding = "form"
    /\ Len(outbox) = 2 => /\ outbox[2].encoding = "json"
                          /\ CameBack(1)
                          /\ ~CameBackOk(1)
                          /\ outbox[2].target = outbox[1].target
    /\ \A i \in 1..Len(outbox) : CameBackOk(i) => i = Len(outbox)

\* the answer to a request whose last provider call returned a response
AnswersLastResponse ==
    LET last == outbox[Len(outbox)].result.v
    IN IF last.ok
       THEN reply.v = SendJson([ok |-> TRUE, response |-> last.body])
       ELSE /\ reply.v.body = [error |-> "Remote API error", response |-> last.body]
            /\ reply.v.status = (IF last.status = 0 THEN 502 ELSE last.status)

\* C24 as stated: POST /send posts form-urlencoded first and JSON only after
\* a first response that was not ok, makes at most two provider calls and
\* none after an ok response; it answers { ok: true } exactly when the last
\* attempt made was ok, and otherwise "Remote API error" with that attempt's
\* status (502 for status 0).
C24_FallbackOrder ==
    call.route = "POST /send" =>
        /\ InFallbackOrder
        /\ (reply.done /\ outbox # <<>>) =>
               /\ CameBack(Len(outbox))
               /\ AnswersLastResponse

\* C24 amended: the same for the attempts that return a response; an attempt
\* that throws is the last one, and the answer is then 500 "Failed to send
\* WhatsApp".
C24_FallbackOrderOfResponses ==
    call.route = "POST /send" =>
        /\ InFallbackOrder
        /\ \A i \in 1..Len(outbox) :
               (outbox[i].result.done /\ outbox[i].result.v = Thrown) => i = Len(outbox)
        /\ (reply.done /\ outbox # <<>>) =>
               /\ outbox[Len(outbox)].result.done
               /\ IF CameBack(Len(outbox))
                  THEN AnswersLastResponse
                  ELSE reply.v = SendError(500, "Failed to send WhatsApp")

\* the form post was not ok, the JSON post came back with status 0 and the
\* answer is 502
C24_Witness ==
    /\ SendAnswered
    /\ Len(outbox) = 2
    /\ CameBack(2)
    /\ outbox[2].result.v.status = 0
    /\ reply.v.status = 502

\* the value POST /send has for one of endpoint, appkey, authkey once the
\* absent ones are filled from the configuration file
Effective(k) ==
    IF call.body[k] # "" THEN call.body[k]
    ELSE IF stored # Null THEN Field(stored, k)
    ELSE ""

StillMissing ==
    \/ \E k \in {"endpoint", "appkey", "authkey"} : Effective(k) = ""
    \/ call.body.to = <<>>
    \/ call.body.message = ""

\* what the request supplied is what every provider call carries
SuppliedIsKept ==
    \A i \in 1..Len(outbox) :
        /\ call.body.endpoint # "" => outbox[i].target = call.body.endpoint
        /\ call.body.appkey # "" => outbox[i].payload.appkey = call.body.appkey
        /\ call.body.authkey # "" => outbox[i].payload.authkey = call.body.authkey
        /\ call.body.template_id # "" =>
               outbox[i].payload.template_id = call.body.template_id
        /\ outbox[i].payload.message = call.body.message

\* C25: POST /send answers 400, calls no provider and writes no image file
\* whenever one of endpoint, appkey, authkey, to, message is missing after
\* the absent endpoint, appkey, authkey are filled from the stored
\* configuration; and a value the request supplies is never replaced by the
\* stored one.
C25_MissingFieldsRejected ==
    call.route = "POST /send" =>
        /\ StillMissing => /\ reply = Result(SendError(400, "Missing endpoint/appkey/authkey/to/message"))
                           /\ outbox = <<>>
                           /\ images = 0
        /\ SuppliedIsKept

\* a request with an image and no message, its credentials filled from the
\* stored configuration, is turned away
C25_Witness ==
    /\ SendAnswered
    /\ stored # Null
    /\ call.body.appkey = ""
    /\ call.body.message = ""
    /\ call.body.imageDataUrl # ""
    /\ reply.v.status = 400
    /\ images = 0

\* the next request goes to /config
ConfigRequested == call'.route \in {"GET /config", "PUT /config"} /\ reply'.done

\* its x-admin-token is not the ADMIN_TOKEN that is set
TokenDiffers == adminToken # <<>> /\ call'.header # adminToken

\* it is a PUT without one of the three required texts
LacksRequired ==
    /\ call'.route = "PUT /config"
    /\ \E k \in {"endpoint", "appkey", "authkey"} : Field(call'.body, k) = ""

\* C26: the stored configuration changes only through an accepted PUT
\* /config.  With ADMIN_TOKEN set, a GET or PUT /config whose x-admin-token
\* differs from it answers 401 and neither returns nor changes the stored
\* configuration; a PUT (of an authorized caller) that lacks endpoint, appkey
\* or authkey answers 400 and leaves it unchanged; with ADMIN_TOKEN not set
\* every caller is authorized.
C26_ConfigGuarded ==
    [][/\ stored' # stored =>
              /\ call'.route = "PUT /config"
              /\ reply' = Result(SendJson([ok |-> TRUE]))
              /\ stored' = call'.body
       /\ (ConfigRequested /\ TokenDiffers) =>
              /\ reply' = Result(SendError(401, "Unauthorized"))
              /\ stored' = stored
       /\ (ConfigRequested /\ ~TokenDiffers /\ LacksRequired) =>
              /\ reply' = Result(SendError(400, "endpoint, appkey, authkey are required"))
              /\ stored' = stored
       /\ (ConfigRequested /\ adminToken = <<>>) => reply'.v.status # 401
       /\ adminToken' = adminToken]_vars

\* a stored configuration, ADMIN_TOKEN set, and a PUT of a complete
\* configuration with another token that got 401
C26_Witness ==
    /\ call.route = "PUT /config"
    /\ reply.done
    /\ adminToken # <<>>
    /\ call.header # adminToken
    /\ call.header # <<>>
    /\ \A k \in {"endpoint", "appkey", "authkey"} : Field(call.body, k) # ""
    /\ stored # Null
    /\ stored # call.body
    /\ reply.v.status = 401

\* POST /send took its appkey or its authkey from the stored configuration
TakesStoredCredentials ==
    /\ call.route = "POST /send"
    /\ outbox # <<>>
    /\ stored # Null
    /\ \/ call.body.appkey = "" /\ outbox[1].payload.appkey = stored.appkey
       \/ call.body.authkey = "" /\ outbox[1].payload.authkey = stored.authkey

\* C27: whenever POST /send takes appkey or authkey from the stored
\* configuration, the provider calls it makes go to the stored endpoint and
\* not to an endpoint the caller chose.
C27_StoredCredentialsToStoredEndpoint ==
    TakesStoredCredentials =>
        \A i \in 1..Len(outbox) : outbox[i].target = stored.endpoint

\* the request names no endpoint, appkey or authkey of its own
NoCredentials ==
    call.body.endpoint = "" /\ call.body.appkey = "" /\ call.body.authkey = ""

\* C29: after a PUT /config accepted with configuration c and until the next
\* accepted PUT, every authorized GET /config returns c's endpoint, appkey
\* and authkey (and its templateId and imageHost when it has them), and a
\* POST /send that names no credentials uses c's endpoint, appkey and authkey.
C29_ConfigRoundTrip ==
    lastPut # Null =>
        /\ (call.route = "GET /config" /\ reply.done /\ reply.v.status # 401) =>
               /\ reply.v.status = 200
               /\ \A k \in DOMAIN lastPut :
                      k \in DOMAIN reply.v.body /\ reply.v.body[k] = lastPut[k]
        /\ (call.route = "POST /send" /\ NoCredentials) =>
               \A i \in 1..Len(outbox) :
                   /\ outbox[i].target = lastPut.endpoint
                   /\ outbox[i].payload.appkey = lastPut.appkey
                   /\ outbox[i].payload.authkey = lastPut.authkey

\* a configuration with a template was put in place of another one and a GET
\* /config has returned it
C29_Witness ==
    /\ lastPut # Null
    /\ lastPut.appkey = "app-2"
    /\ "templateId" \in DOMAIN lastPut
    /\ call.route = "GET /config"
    /\ reply.done
    /\ reply.v.status = 200

(***************************************************************************)
(* Signed temporary URLs: GET /uploads-temp/:filename of                   *)
(* src/server/index.ts, and their issuance by POST /send of                *)
(* src/unnamed/part_004.                                                   *)
(*                                                                         *)
(* File names, exp and sig are texts; a query parameter that is absent is  *)
(* Undefined.  The clock counts milliseconds.                              *)
(***************************************************************************)

\* Number(t) of a text: 0 for a blank text, the value of the decimal literal
\* (or signed Infinity) that fills the trimmed text, NaN for any other text
Number(t) ==
    LET s == trim(t)
        neg == s # <<>> /\ Head(s) = "-"
        u == IF s # <<>> /\ Head(s) \in {"+", "-"} THEN Tail(s) ELSE s
        n == DigitRun(u)
        dot == n < Len(u) /\ u[n + 1] = "."
        k == IF dot THEN DigitRun(Drop(u, n + 1)) ELSE 0
        r == Drop(u, IF dot THEN n + 1 + k ELSE n)
        esign == Len(r) >= 2 /\ r[2] \in {"+", "-"}
        edig == IF r # <<>> /\ r[1] \in {"e", "E"}
                THEN DigitRun(Drop(r, IF esign THEN 2 ELSE 1)) ELSE 0
        whole == /\ n + k > 0
                 /\ r = <<>> \/ (edig > 0 /\ Len(r) = (IF esign THEN 2 ELSE 1) + edig)
    IN  IF s = <<>> THEN Zero
        ELSE IF u = <<"I","n","f","i","n","i","t","y">> THEN Infinity(neg)
        ELSE IF whole THEN NumberParseFloat(s)
        ELSE NaN

\* now > expNum, for the clock's whole number now and a finite expNum
Later(now, expNum) == now * Pow10(expNum.e) > expNum.m

\* process.env.MEDIA_SIGN_KEY || "dev-secret", the same in both files
MEDIA_SIGN_KEY == <<"d", "e", "v">>

\* HMAC-SHA256(key, text) as a hex text: taken as an ideal MAC, a text that
\* determines the key and the signed text and is found only by computing it
Hmac(key, text) == Text(<<"h", "m", "a", "c", "(">> \o key \o <<",">> \o text \o <<")">>)

\* signMedia(filename, exp): the MAC of `${filename}:${exp}`
signMedia(filename, exp) == Hmac(MEDIA_SIGN_KEY, filename \o <<":">> \o exp)

\* res.sendFile(filePath)
SendFile(filename) == [status |-> 200, file |-> filename]

\* the variant that turns a link away in its last millisecond
expired_AtExp(now, expNum) == now * Pow10(expNum.e) >= expNum.m

\* line 53: now > expNum
expired(now, expNum) == Later(now, expNum)

\* GET /uploads-temp/:filename at time now, with the upload directory
\* holding files
getUpload(rq, now, files) ==
    IF Falsy(rq.exp) \/ Falsy(rq.sig) THEN SendError(400, "Missing exp/sig")
    ELSE LET expNum == Number(rq.exp.s)
         IN IF ~IsFiniteNumber(expNum) THEN SendError(400, "Invalid exp")
            ELSE IF expired(now, expNum) THEN SendError(410, "Link expired")
            ELSE IF rq.sig # signMedia(rq.filename, String(rq.exp))
            THEN SendError(403, "Invalid signature")
            ELSE IF rq.filename \notin files THEN SendError(404, "File not found")
            ELSE SendFile(rq.filename)

\* sanitizeFilename(name): every character outside a-z A-Z 0-9 _ . - becomes _
sanitizeFilename(name) ==
    [i \in 1..Len(name) |->
        IF \/ \E j \in 1..26 : name[i] \in {LowerChars[j], UpperChars[j]}
           \/ IsDigit(name[i])
           \/ name[i] \in {"_", ".", "-"}
        THEN name[i] ELSE "_"]

\* timestampedName(originalName) at time now: the time, "__" and the
\* sanitized name (the time is written as its count of milliseconds)
timestampedName(originalName, now) ==
    NatToStr(now) \o <<"_", "_">> \o sanitizeFilename(originalName)

\* part_004 lines 138-142: the link to a file saved at time now, with its
\* query parameters as the URL carries them; expires is exp as a number
issueLink(filename, now, ttl) ==
    [filename |-> filename,
     exp |-> Text(NatToStr(now + ttl)),
     sig |-> signMedia(filename, NatToStr(now + ttl)),
     expires |-> now + ttl]

(***************************************************************************)
(* SpecMedia: the relay saves images and issues links to them, time        *)
(* passes, and clients get /uploads-temp/:filename with the parameters of  *)
(* an issued link or with parameters of their own.                         *)
(***************************************************************************)

\* the last millisecond of a run
MaxClock == 2
\* the longest life of a link, in milliseconds
MaxTtl == 1
\* the most links issued in a run
MaxLinks == 1

\* the name the image comes with
OriginalName == <<"a", " ", "b">>
\* a file name the upload directory does not hold
GoneName == <<"g", "o", "n", "e">>

\* exp as a client may send it: absent, empty, and texts that are no finite
\* number or are one written another way
OddExps ==
    {Undefined, Text(<<>>), Text(<<"I","n","f","i","n","i","t","y">>),
     Text(<<"1", "x">>), Text(<<"1", "e", "0">>)}

\* sig as a client that does not hold the key may send it
OddSigs == {Undefined, Text(<<"0", "0">>)}

\* the requests of a client: for a file of a link or one that is not there,
\* with the exp of a link or an odd one, and with the signature of these two,
\* the signature of a link or an odd one
UploadRequests ==
    {[filename |-> f, exp |-> e, sig |-> s] :
        f \in {l.filename : l \in links} \cup {GoneName},
        e \in {l.exp : l \in links} \cup OddExps,
        s \in {l.sig : l \in links} \cup OddSigs}
    \cup {[filename |-> f, exp |-> e, sig |-> signMedia(f, String(e))] :
        f \in {l.filename : l \in links} \cup {GoneName},
        e \in {l.exp : l \in links} \cup (OddExps \ {Undefined})}

InitMedia ==
    /\ clock = 0
    /\ mediaTtl \in 0..MaxTtl
    /\ uploads = {}
    /\ links = {}
    /\ fetched = NoResult
    /\ AttendanceIdle
    /\ ConcurrentIdle
    /\ RelayIdle
    /\ PageIdle

\* a millisecond passes
Tick ==
    /\ clock < MaxClock
    /\ clock' = clock + 1
    /\ UNCHANGED <<mediaTtl, uploads, links, fetched>>
    /\ UNCHANGED <<attendanceVars, concurrentVars, relayVars, pageVars>>

\* POST /send of part_004 saves the image and issues the link to it
IssueLink ==
    /\ Cardinality(links) < MaxLinks
    /\ LET filename == timestampedName(OriginalName, clock)
       IN /\ uploads' = uploads \cup {filename}
          /\ links' = links \cup {issueLink(filename, clock, mediaTtl)}
    /\ UNCHANGED <<clock, mediaTtl, fetched>>
    /\ UNCHANGED <<attendanceVars, concurrentVars, relayVars, pageVars>>

\* GET /uploads-temp/:filename
GetUpload ==
    /\ \E rq \in UploadRequests :
           fetched' = Result([rq |-> rq, now |-> clock,
                              answer |-> getUpload(rq, clock, uploads)])
    /\ UNCHANGED <<clock, mediaTtl, uploads, links>>
    /\ UNCHANGED <<attendanceVars, concurrentVars, relayVars, pageVars>>

NextMedia == Tick \/ IssueLink \/ GetUpload

SpecMedia == InitMedia /\ [][NextMedia]_vars

\* ---- claims about the signed URLs ----

\* the texts that are finite numbers, with their values
FiniteExps ==
    {[text |-> NatToStr(n), value |-> n] : n \in 0..(MaxClock + MaxTtl)}
    \cup {[text |-> <<"1", "e", "0">>, value |-> 1]}

\* exp of the last request is the finite number n
ExpIs(n) ==
    /\ fetched.v.rq.exp.t = "text"
    /\ [text |-> fetched.v.rq.exp.s, value |-> n] \in FiniteExps

\* the answer C23 gives to the last request, by its precedence
ExpectedAnswer ==
    LET rq == fetched.v.rq
        absent(q) == q = Undefined \/ q = Text(<<>>)
    IN IF absent(rq.exp) \/ absent(rq.sig) THEN SendError(400, "Missing exp/sig")
       ELSE IF ~\E n \in 0..(MaxClock + MaxTtl) : ExpIs(n)
       THEN SendError(400, "Invalid exp")
       ELSE IF \E n \in 0..(MaxClock + MaxTtl) : ExpIs(n) /\ fetched.v.now > n
       THEN SendError(410, "Link expired")
       ELSE IF rq.sig # Hmac(MEDIA_SIGN_KEY, rq.filename \o <<":">> \o rq.exp.s)
       THEN SendError(403, "Invalid signature")
       ELSE IF rq.filename \notin uploads THEN SendError(404, "File not found")
       ELSE SendFile(rq.filename)

\* the last request carries the parameters of the issued link l
FollowsLink(l) ==
    fetched.v.rq = [filename |-> l.filename, exp |-> l.exp, sig |-> l.sig]

DefaultEndpoint == "https://whatsapp.atdsonata.fun/api/create-message"

\* defaultConfig()
defaultConfig ==
    [endpoint |-> DefaultEndpoint, appkey |-> "", authkey |-> "", templateId |-> "",
     imageHost |-> NoUrl]

\* an item of local storage that JSON.parse rejects
Corrupt == [corrupt |-> TRUE]

\* loadConfig(): the defaults when there is no item or it does not parse,
\* else the item's texts, the endpoint falling back to the default one
loadConfig(item) ==
    IF item = Null \/ item = Corrupt THEN defaultConfig
    ELSE [endpoint |-> Or(Field(item, "endpoint"), defaultConfig.endpoint),
          appkey |-> Field(item, "appkey"),
          authkey |-> Field(item, "authkey"),
          templateId |-> Field(item, "templateId"),
          imageHost |-> UrlField(item, "imageHost")]

\* saveLocal(cfg): the item is JSON.stringify(cfg)
saveLocal(cfg) == cfg

\* o[k] ?? d : d only when the key is absent
Nullish(o, k, d) == IF k \in DOMAIN o THEN o[k] ELSE d

\* lines 60-66: the configuration merged from the server's answer j and the
\* configuration the page was mounted with
merged(j, config) ==
    [endpoint |-> Or(Or(Field(j, "endpoint"), config.endpoint), defaultConfig.endpoint),
     appkey |-> Nullish(j, "appkey", config.appkey),
     authkey |-> Nullish(j, "authkey", config.authkey),
     templateId |-> Nullish(j, "templateId", config.templateId),
     imageHost |-> Nullish(j, "imageHost", config.imageHost)]

\* the GET /api/whatsapp/config of the page, which sends no x-admin-token
PageRequest == [route |-> "GET /config", header |-> <<>>]

(***************************************************************************)
(* SpecPage: the page is mounted once, its fetch of the server's           *)
(* configuration completes or fails, the user types, the timer that keeps  *)
(* local storage in step fires, and the page is unmounted.                 *)
(***************************************************************************)

LocalAppkey == "app-local"
LocalAuthkey == "auth-local"

\* what local storage holds when the page is opened
LocalItems ==
    {Null, Corrupt,
     [endpoint |-> "", appkey |-> LocalAppkey, authkey |-> LocalAuthkey,
      templateId |-> "", imageHost |-> NoUrl],
     [endpoint |-> CallerEndpoint, appkey |-> LocalAppkey, authkey |-> LocalAuthkey,
      templateId |-> "tpl-local", imageHost |-> ImageHost]}

\* what the user types into the appkey field
TypedAppkeys == {"", "app-typed"}

\* the fetch of the mount effect has not completed
Fetching == "fetch" \in DOMAIN page /\ page.fetch = "pending"

InitPage ==
    /\ localStore \in LocalItems
    /\ page = [mounted |-> FALSE]
    /\ stored \in InitialStores
    /\ adminToken \in AdminTokens
    /\ call = [route |-> "none"] /\ reply = NoResult /\ outbox = <<>>
    /\ images = 0 /\ lastPut = Null
    /\ AttendanceIdle
    /\ ConcurrentIdle
    /\ MediaIdle

\* the page is mounted: useState(() => loadConfig()), and the two effects
\* start the fetch and the timer
Mount ==
    /\ page = [mounted |-> FALSE]
    /\ page' = [mounted |-> TRUE, config |-> loadConfig(localStore),
                closure |-> loadConfig(localStore), fetch |-> "pending",
                timer |-> TRUE]
    /\ UNCHANGED localStore
    /\ UNCHANGED <<attendanceVars, concurrentVars, relayVars, mediaVars>>

\* the fetch completes: the server answers GET /config, or the fetch fails;
\* an answer that is ok is merged with the configuration of the mount and,
\* unless the page was unmounted, set as the state and saved
FetchCompletes ==
    /\ Fetching
    /\ \E arrives \in BOOLEAN :
        LET answer == getConfig(PageRequest, stored, adminToken)
            m == merged(answer.body, page.closure)
        IN IF arrives /\ answer.status = 200 /\ page.mounted
           THEN /\ page' = [page EXCEPT !.config = m, !.fetch = "merged", !.timer = TRUE]
                /\ localStore' = saveLocal(m)
           ELSE /\ page' = [page EXCEPT !.fetch = IF arrives /\ answer.status = 200
                                                 THEN "dropped" ELSE "failed"]
                /\ UNCHANGED localStore
    /\ UNCHANGED <<attendanceVars, concurrentVars, relayVars, mediaVars>>

\* the user types into the appkey field
Type ==
    /\ page.mounted
    /\ \E v \in TypedAppkeys :
        /\ page.config.appkey # v
        /\ page' = [page EXCEPT !.config.appkey = v, !.timer = TRUE]
    /\ UNCHANGED localStore
    /\ UNCHANGED <<attendanceVars, concurrentVars, relayVars, mediaVars>>

\* 400 ms after the last change of the state: saveLocal(config)
TimerFires ==
    /\ page.mounted
    /\ page.timer
    /\ localStore' = saveLocal(page.config)
    /\ page' = [page EXCEPT !.timer = FALSE]
    /\ UNCHANGED <<attendanceVars, concurrentVars, relayVars, mediaVars>>

\* the page is unmounted: cancelled = true and clearTimeout
Unmount ==
    /\ page.mounted
    /\ page' = [page EXCEPT !.mounted = FALSE, !.timer = FALSE]
    /\ UNCHANGED localStore
    /\ UNCHANGED <<attendanceVars, concurrentVars, relayVars, mediaVars>>

NextPage == Mount \/ FetchCompletes \/ Type \/ TimerFires \/ Unmount

SpecPage == InitPage /\ [][NextPage]_vars

\* ---- the claim about the settings page ----

\* C30: when the fetch of the mount completes and the server has no stored
\* configuration (GET /config answers the empty defaults), the appkey and the
\* authkey loaded from local storage are the page's state and are in local
\* storage afterwards; and when the page was unmounted before the fetch
\* completes, the fetch writes neither the state nor local storage.
C30_LocalKeptWhereServerEmpty ==
    [][(Fetching /\ ~Fetching') =>
          /\ (page.mounted /\ page'.fetch = "merged" /\ stored = Null) =>
                 /\ page'.config.appkey = page.closure.appkey
                 /\ page'.config.authkey = page.closure.authkey
                 /\ Field(localStore', "appkey") = page.closure.appkey
                 /\ Field(localStore', "authkey") = page.closure.authkey
          /\ ~page.mounted => (page'.config = page.config /\ localStore' = localStore)]_vars

=============================================================================
